---- MODULE Spec2Model ----
(***************************************************************************)
(* State-machine model of QuicTransportBase                                *)
(* (src/quic/api/QuicTransportBase.cpp): connection life cycle, timers,    *)
(* loopers, callback registries and the dispatch of application callbacks. *)
(*                                                                         *)
(* Every C++ member function is an operator from a state record S to a     *)
(* state record; a top-level action runs one handler to completion and     *)
(* installs the resulting record.  Application callbacks are re-entrant:   *)
(* each action carries an input (trig, react) meaning "inside the trig-th  *)
(* callback of this turn the application calls react on the transport".    *)
(***************************************************************************)
EXTENDS Integers, Sequences, FiniteSets, TLC

\* ---------------------------------------------------------------- bounds
\* 1: server bidirectional, 2: client unidirectional (receive-only here),
\* 3: server unidirectional (send-only here)
StreamIds == {1, 2, 3}
MaxOffset == 1
MaxTrigger == 1
MaxRegs == 2
MaxOutstanding == 1
MaxEvents == 1
MaxStreamEvents == 2
MaxAsync == 2
MaxPlainScript == 3
MaxReadEvents == 2
MaxEcnCount == 11
MaxDatagramsBuffered == 2
UintModulus == 8
MinEcnMarks == 10

VARIABLES
  closeState,            \* closeState_
  timers,                \* set of scheduled timer callbacks
  readLooper, peekLooper, writeLooper,   \* looper is running
  socket,                \* socket_ is non-null (UDP socket open)
  bound,                 \* connection still bound (unbindConnection not run)
  writableCb,            \* socket_->isWritableCallbackSet()
  evb,                   \* evb_: 0 is null, otherwise the event base
  connCallback, connSetupCallback,       \* callback pointer is non-null
  transportReadyNotified,
  localConnectionError, peerConnectionError, exceptionCloseWhat,
  streams, closedStreams, resetSent, readable, peekable, newPeerStreams,
  newPeerStreamGroups,
  created, pendingData, receivedNewPacketBeforeWrite,
  readCallbacks, peekCallbacks,
  byteEvents,            \* [ACK |-> deliveryCallbacks_, TX |-> txCallbacks_]
  deliverable, txSet,    \* stream manager: streams with new acked / txed data
  ackedOffset, txOffset, \* largest deliverable / transmitted offset per stream
  pendingWriteCallbacks, connWriteCallback,
  pingCallback, datagramCallback,
  pendingEvents, ecn, flowControlState,
  outstandingPathValidation,             \* conn_->outstandingPathValidation
  datagramState,
  transportParametersEncoded,
  outstandings, congestionController,
  bufferedWrite, closeSent, asyncQ,
  settings,
  \* ---- the environment of the transport
  env,                   \* what the application and the network still do
  started,               \* the application's start-up calls have been made
  \* ---- observation of the last turn and of the connection's history
  log,                   \* application callbacks invoked in the last turn
  react,                 \* re-entrant call made by the application, if any
  csLog,                 \* values taken by closeState_ during the last turn
  ret,                   \* what the application call of the turn returned
  netObs,                \* what the turn did: packets read, dispatch passes,
                         \* idle timer re-armed, ack-eliciting packet sent,
                         \* what each closeNow() left when it returned
  reaped,                \* streams reaped in the turn, as they were then
  delivered,             \* streams handleDeliveryCallbacks finished in the turn
  closeImplExit,         \* state observed when closeImpl's body completed
  drainArms,             \* times the drain timer was scheduled
  nRegs, notes,          \* byte-event registrations and their notifications
  lastFired,             \* largest offset fired so far per type and stream
  ub,                    \* undefined behaviour was executed
  crashed,               \* the process aborted (failed CHECK / null call)
  ref,                   \* the same turn without the re-entrant call
  bufferAvailable,       \* what getConnectionBufferAvailable returned
  lastOp

vars == << closeState, timers, readLooper, peekLooper, writeLooper, socket,
           bound, writableCb, evb, connCallback, connSetupCallback,
           transportReadyNotified, localConnectionError, peerConnectionError,
           exceptionCloseWhat, streams, closedStreams, resetSent, readable,
           peekable, newPeerStreams, newPeerStreamGroups, created, pendingData,
           receivedNewPacketBeforeWrite, readCallbacks, peekCallbacks,
           byteEvents, deliverable, txSet, ackedOffset, txOffset,
           pendingWriteCallbacks, connWriteCallback, pingCallback,
           datagramCallback, pendingEvents, ecn, flowControlState,
           outstandingPathValidation, datagramState,
           transportParametersEncoded, outstandings,
           congestionController, bufferedWrite, closeSent, asyncQ, settings,
           env, started, log, react, csLog, ret, netObs, reaped, delivered,
           closeImplExit, drainArms,
           nRegs, notes, lastFired, ub, crashed, ref, bufferAvailable,
           lastOp >>

\* ------------------------------------------------------- small utilities
Min(s) == CHOOSE x \in s : \A y \in s : x <= y

Erase(f, k) == [x \in (DOMAIN f) \ {k} |-> f[x]]

Put(f, k, v) == [x \in (DOMAIN f) \cup {k} |-> IF x = k THEN v ELSE f[x]]

EmptyMap == [x \in {} |-> 0]

RemoveAt(q, i) == [j \in 1..(Len(q) - 1) |-> IF j < i THEN q[j] ELSE q[j + 1]]

InsertAt(q, i, e) ==
  [j \in 1..(Len(q) + 1) |-> IF j < i THEN q[j] ELSE IF j = i THEN e ELSE q[j - 1]]

\* ----------------------------------------------------------------- errors
NoErr == [type |-> "None", code |-> "None", msg |-> ""]

QuicError(t, c, m) == [type |-> t, code |-> c, msg |-> m]

NoOffset == -1

ByteEventTypes == {"ACK", "TX"}

NoExit ==
  [ done |-> FALSE, entryState |-> "OPEN", errorCode |-> NoErr,
    cancelCode |-> NoErr, drainIn |-> FALSE, sendIn |-> FALSE,
    shouldDrain |-> FALSE, closeState |-> "OPEN", timers |-> {},
    readLooper |-> FALSE, peekLooper |-> FALSE, writeLooper |-> FALSE,
    outstandings |-> 0, congestionController |-> FALSE, socket |-> FALSE,
    bound |-> FALSE, wroteClose |-> FALSE, drainWasScheduled |-> FALSE,
    streamCountAtEntry |-> 0, regs |-> << >>, from |-> 0, seg |-> << >>,
    pktsRead |-> 0, passes |-> 0,
    termConn |-> FALSE, termSetup |-> FALSE, termReady |-> FALSE,
    empty |-> FALSE ]

\* ECN not attempted, nothing sent, nothing echoed
NoEcn ==
  [ ecnState |-> "NotAttempted", socketTos |-> "NotECT",
    socketTosSet |-> "NotECT", ecnL4sTracker |-> FALSE, packetProcessors |-> 0,
    ecnCECountEchoed |-> 0, ecnECT0CountEchoed |-> 0,
    ecnECT1CountEchoed |-> 0, minimumExpectedEcnMarksEchoed |-> 0,
    totalPacketsSent |-> 0 ]

\* The datagram state of a new connection: nothing buffered, and the peer
\* has not advertised a datagram frame size
NoDatagrams ==
  [ readBuffer |-> << >>, writeBuffer |-> << >>, maxWriteFrameSize |-> 0,
    maxWriteBufferSize |-> MaxDatagramsBuffered,
    maxReadBufferSize |-> MaxDatagramsBuffered ]

\* A turn that read no packet, wrote none and closed nothing
NoNetObs ==
  [ pktsRead |-> 0, passes |-> 0, idleSet |-> FALSE,
    newOutstandingPackets |-> FALSE, closeNowExit |-> << >> ]

\* No call of getConnectionBufferAvailable in the turn
NoBufferAvailable == 0 - 1

\* The current state as one record, and the record put back in the variables.
Cur ==
  [ closeState |-> closeState, timers |-> timers, readLooper |-> readLooper,
    peekLooper |-> peekLooper, writeLooper |-> writeLooper, socket |-> socket,
    bound |-> bound, writableCb |-> writableCb, evb |-> evb,
    connCallback |-> connCallback, connSetupCallback |-> connSetupCallback,
    transportReadyNotified |-> transportReadyNotified,
    localConnectionError |-> localConnectionError,
    peerConnectionError |-> peerConnectionError,
    exceptionCloseWhat |-> exceptionCloseWhat, streams |-> streams,
    closedStreams |-> closedStreams, resetSent |-> resetSent,
    readable |-> readable,
    peekable |-> peekable, newPeerStreams |-> newPeerStreams,
    newPeerStreamGroups |-> newPeerStreamGroups,
    created |-> created, pendingData |-> pendingData,
    receivedNewPacketBeforeWrite |-> receivedNewPacketBeforeWrite,
    readCallbacks |-> readCallbacks,
    peekCallbacks |-> peekCallbacks, byteEvents |-> byteEvents,
    deliverable |-> deliverable, txSet |-> txSet, ackedOffset |-> ackedOffset,
    txOffset |-> txOffset, pendingWriteCallbacks |-> pendingWriteCallbacks,
    connWriteCallback |-> connWriteCallback, pingCallback |-> pingCallback,
    datagramCallback |-> datagramCallback, pendingEvents |-> pendingEvents,
    ecn |-> ecn, flowControlState |-> flowControlState,
    outstandingPathValidation |-> outstandingPathValidation,
    datagramState |-> datagramState,
    transportParametersEncoded |-> transportParametersEncoded,
    bufferAvailable |-> NoBufferAvailable,
    outstandings |-> outstandings,
    congestionController |-> congestionController,
    bufferedWrite |-> bufferedWrite, closeSent |-> closeSent,
    asyncQ |-> asyncQ, settings |-> settings,
    closeImplExit |-> NoExit, drainArms |-> drainArms, nRegs |-> nRegs,
    notes |-> notes, lastFired |-> lastFired, ub |-> FALSE,
    crashed |-> crashed, log |-> << >>, csLog |-> << closeState >>,
    ret |-> "-", reaped |-> << >>, delivered |-> << >>, pktsRead |-> 0, passes |-> 0, ackVersionChanged |-> FALSE,
    idleSet |-> FALSE, newOutstandingPackets |-> FALSE, closeNowExit |-> << >>,
    trig |-> 0, react |-> "none", rid |-> 0, stale |-> FALSE,
    fired |-> FALSE, hashOrder |-> env.hash ]

\* The working record of a turn: the current state plus the turn's inputs.
Begin(in) ==
  [Cur EXCEPT !.trig = in.trig, !.react = in.react, !.rid = in.rid,
              !.stale = in.stale]

\* Stream directionality for a server endpoint (stream-id low bits).
isSendingStream(id) == id % 4 = 3

isReceivingStream(id) == id % 4 = 2

\* The value an application call returns
Ret(S, code) == IF S.crashed THEN S ELSE [S EXCEPT !.ret = code]

RECURSIVE Invoke(_, _, _), React(_, _), ReactCall(_, _), close(_, _),
          closeNow(_, _), closeGracefully(_), closeImpl(_, _, _, _),
          cancelAllAppCallbacks(_, _), checkForClosedStream(_),
          cancelByteEventCallbacksForStream(_, _, _, _, _),
          registerByteEventCallback(_, _, _, _, _),
          unregisterStreamWriteCallback(_, _), read(_, _),
          setReadCallback(_, _, _, _)

\* ------------------------------------------------ application callbacks
Ev(cb, id, type, off, err, by) ==
  [cb |-> cb, id |-> id, type |-> type, off |-> off, err |-> err, by |-> by]

\* getLargestDeliverableOffset / getLargestWriteOffsetTxed; -1 is "none"
maxOffsetReady(S, type, id) ==
  IF type = "ACK" THEN S.ackedOffset[id] ELSE S.txOffset[id]

\* The smallest offset queued for (type, id); NoOffset when none is queued
leastQueued(S, type, id) ==
  IF type \in DOMAIN S.byteEvents /\ id \in DOMAIN S.byteEvents[type]
     /\ S.byteEvents[type][id] # << >>
  THEN Min({S.byteEvents[type][id][j].offset :
              j \in 1..Len(S.byteEvents[type][id])})
  ELSE NoOffset

\* The callback as it is observed: with the closeState_ it was entered in
\* and, for a byte event, the offset the stream had reached and the smallest
\* offset its queue still held.
Event(S, ev, target) ==
  [cb |-> ev.cb, id |-> ev.id, type |-> ev.type, off |-> ev.off,
   err |-> ev.err, by |-> ev.by, cs |-> S.closeState, target |-> target,
   ready |-> IF ev.cb = "onByteEvent" /\ ev.id \in S.streams
             THEN maxOffsetReady(S, ev.type, ev.id) ELSE NoOffset,
   least |-> IF ev.cb = "onByteEvent"
             THEN leastQueued(S, ev.type, ev.id) ELSE NoOffset]

\* What the application can do from inside the callback it is running.
Applicable(S, ev) ==
  /\ ev.cb # "onStreamPreReaped"
  /\ S.react = "cancelSame" => ev.cb \in {"onByteEvent", "onByteEventCanceled"}
  /\ S.react = "registerSame" => ev.cb = "onByteEvent"
  /\ S.react \in {"readSame", "setReadOf", "unsetReadOf"}
       => ev.cb = "readAvailable"

\* A call through a callback pointer.  target = FALSE is a call through a
\* null pointer: undefined behaviour, the call is attempted and the process
\* dies in it.
Invoke(S, ev, target) ==
  IF S.crashed THEN S
  ELSE IF ~target
       THEN [S EXCEPT !.log = Append(@, Event(S, ev, target)),
                      !.ub = TRUE, !.crashed = TRUE]
  ELSE IF Len(S.log) + 1 = S.trig /\ ~S.fired /\ Applicable(S, ev)
       THEN React([S EXCEPT !.log = Append(@, Event(S, ev, target)),
                            !.fired = TRUE], ev)
       ELSE [S EXCEPT !.log = Append(@, Event(S, ev, target))]

\* The call the application makes from inside the callback e
ReactCall(S, e) ==
  CASE S.react = "close" -> close(S, NoErr)
    [] S.react = "closeNow" -> closeNow(S, NoErr)
    [] S.react = "closeGracefully" -> closeGracefully(S)
    [] S.react = "cancelSame" ->
         cancelByteEventCallbacksForStream(S, e.type, e.id, NoOffset, "app")
    [] S.react = "registerSame" ->
         registerByteEventCallback(S, e.type, e.id, S.rid, 1)
    [] S.react = "unregisterWrite" -> unregisterStreamWriteCallback(S, S.rid)
    [] S.react = "readSame" -> read(S, e.id)
    [] S.react = "setReadOf" -> setReadCallback(S, S.rid, TRUE, FALSE)
    [] S.react = "unsetReadOf" -> setReadCallback(S, S.rid, FALSE, FALSE)
    [] OTHER -> S

\* What the nested call returns goes to the callback, not to the caller of
\* the handler.
React(S, e) == [ReactCall(S, e) EXCEPT !.ret = S.ret]

\* ------------------------------------------------------ timers, loopers
scheduleTimeout(S, t) ==
  IF S.evb # 0
  THEN [S EXCEPT !.timers = @ \cup {t},
                 !.drainArms = IF t = "drain" THEN @ + 1 ELSE @]
  ELSE S

cancelTimeout(S, t) == [S EXCEPT !.timers = @ \ {t}]

isTimeoutScheduled(S, t) == t \in S.timers

setCloseState(S, v) ==
  [S EXCEPT !.closeState = v, !.csLog = Append(@, v)]

resetConnectionCallbacks(S) ==
  [S EXCEPT !.connCallback = FALSE, !.connSetupCallback = FALSE]

\* shouldWriteData(*conn_) # NO_WRITE
shouldWriteData(S) ==
  \/ S.bufferedWrite \/ S.pendingEvents.sendPing \/ S.pendingData # {}
  \/ S.datagramState.writeBuffer # << >>

updateReadLooper(S) ==
  IF S.closeState # "OPEN" THEN [S EXCEPT !.readLooper = FALSE]
  ELSE [S EXCEPT !.readLooper =
          \/ \E s \in S.readable :
                /\ s \in DOMAIN S.readCallbacks
                /\ S.readCallbacks[s].readCb
                /\ S.readCallbacks[s].resumed
          \/ S.datagramState.readBuffer # << >>]

updatePeekLooper(S) ==
  IF S.peekCallbacks = EmptyMap \/ S.closeState # "OPEN"
  THEN [S EXCEPT !.peekLooper = FALSE]
  ELSE [S EXCEPT !.peekLooper =
          \E s \in S.peekable :
             /\ s \in DOMAIN S.peekCallbacks
             /\ S.peekCallbacks[s].peekCb
             /\ S.peekCallbacks[s].resumed]

\* updateWriteLooper without the early return of lines 1132-1137
updateWriteLooperIgnoresWritable(S) ==
  IF S.closeState = "CLOSED" THEN [S EXCEPT !.writeLooper = FALSE]
  ELSE [S EXCEPT !.writeLooper = shouldWriteData(S)]

updateWriteLooper(S) ==
  IF S.closeState = "CLOSED" THEN [S EXCEPT !.writeLooper = FALSE]
  ELSE IF S.settings.useSockWritableEvents /\ S.writableCb THEN S
  ELSE [S EXCEPT !.writeLooper = shouldWriteData(S)]

\* ---------------------------------------------------------- byte events
removeDeliverableOrTx(S, type, id) ==
  IF type = "ACK" THEN [S EXCEPT !.deliverable = @ \ {id}]
  ELSE [S EXCEPT !.txSet = @ \ {id}]

Bump(n) == IF n < 2 THEN n + 1 ELSE n

\* cb->onByteEventCanceled(...) for the entry en of (type, id)
NotifyCanceled(S, type, id, en, by) ==
  Invoke([S EXCEPT !.notes[en.tk].canceled = Bump(@)],
         Ev("onByteEventCanceled", id, type, en.offset, NoErr, by), TRUE)

\* cb->onByteEvent(...) for the entry en of (type, id)
NotifyFired(S, type, id, en, by) ==
  Invoke([S EXCEPT !.notes[en.tk].fired = Bump(@),
                   !.lastFired[type][id] = IF en.offset > @ THEN en.offset ELSE @],
         Ev("onByteEvent", id, type, en.offset, NoErr, by), TRUE)

\* The queue seen through the reference streamByteEvents (line 1202) taken
\* before the loop.  When a callback erased the map entry, the reference
\* dangles: reading it is undefined behaviour, and it shows either an empty
\* queue or the stale content the loop last saw (view), as chosen by S.stale.
streamByteEventsRef(S, type, id, view) ==
  IF id \in DOMAIN S.byteEvents[type] THEN S.byteEvents[type][id]
  ELSE IF S.stale THEN view ELSE << >>

useStreamByteEventsRef(S, type, id) ==
  IF id \in DOMAIN S.byteEvents[type] THEN S ELSE [S EXCEPT !.ub = TRUE]

\* streamByteEvents.pop_front()
popFront(S, type, id) ==
  IF id \in DOMAIN S.byteEvents[type]
  THEN [S EXCEPT !.byteEvents[type][id] = Tail(@)]
  ELSE S

\* lines 1226-1237: clean up when no callback is left
cancelLoopCleanUp(S, type, id) ==
  [removeDeliverableOrTx(S, type, id) EXCEPT !.byteEvents[type] = Erase(@, id)]

RECURSIVE cancelLoop(_, _, _, _, _, _)
cancelLoopStep(S, type, id, offset, by, q) ==
  IF q # << >> /\ (offset = NoOffset \/ Head(q).offset < offset)
  THEN cancelLoop(NotifyCanceled(popFront(S, type, id), type, id, Head(q), by),
                  type, id, offset, by, Tail(q))
  ELSE IF q = << >> THEN cancelLoopCleanUp(S, type, id)
  ELSE S

\* The head of the while loop of cancelByteEventCallbacksForStream
cancelLoopHead(S, type, id, offset, by, view) ==
  cancelLoopStep(useStreamByteEventsRef(S, type, id), type, id, offset, by,
                 streamByteEventsRef(S, type, id, view))

cancelLoop(S, type, id, offset, by, view) ==
  IF S.crashed \/ S.closeState # "OPEN" THEN S
  ELSE cancelLoopHead(S, type, id, offset, by, view)

cancelByteEventCallbacksForStream(S, type, id, offset, by) ==
  IF S.crashed \/ isReceivingStream(id) THEN S
  ELSE IF id \notin DOMAIN S.byteEvents[type]
       THEN removeDeliverableOrTx(S, type, id)
       ELSE cancelLoopHead(S, type, id, offset, by, << >>)

\* cancelByteEventCallbacksForStream(id, offset): every byte-event type
cancelByteEventCallbacksForStreamAllTypes(S, id, offset, by) ==
  cancelByteEventCallbacksForStream(
    cancelByteEventCallbacksForStream(S, "ACK", id, offset, by),
    "TX", id, offset, by)

RECURSIVE cancelEntries(_, _, _, _)
cancelEntries(S, type, id, q) ==
  IF q = << >> THEN S
  ELSE cancelEntries(
         NotifyCanceled(S, type, id, Head(q), "cancelByteEventCallbacks"),
         type, id, Tail(q))

RECURSIVE cancelMap(_, _, _)
cancelMap(S, type, m) ==
  IF DOMAIN m = {} THEN S
  ELSE cancelMap(cancelEntries(S, type, Min(DOMAIN m), m[Min(DOMAIN m)]),
                 type, Erase(m, Min(DOMAIN m)))

\* The member map is moved into a local; the callbacks run on the local.
cancelByteEventCallbacks(S, type) ==
  cancelMap([S EXCEPT !.byteEvents[type] = EmptyMap], type, S.byteEvents[type])

cancelAllByteEventCallbacks(S) ==
  cancelByteEventCallbacks(cancelByteEventCallbacks(S, "ACK"), "TX")

getNumByteEventCallbacksForStream(S, id) ==
  (IF id \in DOMAIN S.byteEvents["ACK"] THEN Len(S.byteEvents["ACK"][id]) ELSE 0)
  + (IF id \in DOMAIN S.byteEvents["TX"] THEN Len(S.byteEvents["TX"][id]) ELSE 0)

unregisterStreamWriteCallback(S, id) ==
  IF id \notin S.streams THEN Ret(S, "STREAM_NOT_EXISTS")
  ELSE IF id \notin DOMAIN S.pendingWriteCallbacks
       THEN Ret(S, "INVALID_OPERATION")
  ELSE Ret([S EXCEPT !.pendingWriteCallbacks = Erase(@, id)], "OK")

\* ------------------------------------------------- cancelAllAppCallbacks
\* One round of for (auto& cb : readCallbacksCopy): CHECK_NOTNULL(getStream)
\* aborts the process when the stream is gone.
cancelReadCallback(S, id, readCb, err) ==
  IF ~readCb THEN [S EXCEPT !.readCallbacks = Erase(@, id)]
  ELSE IF id \notin S.streams
       THEN [S EXCEPT !.readCallbacks = Erase(@, id), !.crashed = TRUE]
  ELSE Invoke([S EXCEPT !.readCallbacks = Erase(@, id)],
              Ev("readError", id, "-", NoOffset, err, "cancelAllAppCallbacks"),
              TRUE)

RECURSIVE cancelReadCallbacks(_, _, _)
cancelReadCallbacks(S, copy, err) ==
  IF S.crashed \/ DOMAIN copy = {} THEN S
  ELSE cancelReadCallbacks(
         cancelReadCallback(S, Min(DOMAIN copy), copy[Min(DOMAIN copy)].readCb,
                            err),
         Erase(copy, Min(DOMAIN copy)), err)

cancelPeekCallback(S, id, peekCb, err) ==
  IF ~peekCb THEN [S EXCEPT !.peekCallbacks = Erase(@, id)]
  ELSE Invoke([S EXCEPT !.peekCallbacks = Erase(@, id)],
              Ev("peekError", id, "-", NoOffset, err, "cancelAllAppCallbacks"),
              TRUE)

RECURSIVE cancelPeekCallbacks(_, _, _)
cancelPeekCallbacks(S, copy, err) ==
  IF S.crashed \/ DOMAIN copy = {} THEN S
  ELSE cancelPeekCallbacks(
         cancelPeekCallback(S, Min(DOMAIN copy), copy[Min(DOMAIN copy)].peekCb,
                            err),
         Erase(copy, Min(DOMAIN copy)), err)

RECURSIVE cancelWriteCallbacks(_, _, _)
cancelWriteCallbacks(S, copy, err) ==
  IF S.crashed \/ DOMAIN copy = {} THEN S
  ELSE cancelWriteCallbacks(
         Invoke([S EXCEPT !.pendingWriteCallbacks = Erase(@, Min(DOMAIN copy))],
                Ev("onStreamWriteError", Min(DOMAIN copy), "-", NoOffset, err,
                   "cancelAllAppCallbacks"), TRUE),
         Erase(copy, Min(DOMAIN copy)), err)

cancelConnWriteCallback(S, err) ==
  IF S.crashed \/ ~S.connWriteCallback THEN S
  ELSE Invoke([S EXCEPT !.connWriteCallback = FALSE],
              Ev("onConnectionWriteError", -1, "-", NoOffset, err,
                 "cancelAllAppCallbacks"), TRUE)

\* SCOPE_EXIT of cancelAllAppCallbacks
cancelAllAppCallbacksExit(S) ==
  IF S.crashed THEN S
  ELSE updateWriteLooper(updatePeekLooper(updateReadLooper(
         checkForClosedStream(S))))

clearDatagramAndPingCallbacks(S) ==
  IF S.crashed THEN S
  ELSE [S EXCEPT !.datagramCallback = FALSE, !.pingCallback = FALSE]

\* lines 2878-2889: the loop runs over a copy of readCallbacks_
cancelAllReadCallbacks(S, err) == cancelReadCallbacks(S, S.readCallbacks, err)

\* The peek callbacks dropped without peekError
cancelAllPeekCallbacksSilently(S, err) ==
  [S EXCEPT !.peekCallbacks = EmptyMap]

\* lines 2898-2904: the loop runs over a copy of peekCallbacks_
cancelAllPeekCallbacks(S, err) == cancelPeekCallbacks(S, S.peekCallbacks, err)

\* lines 2911-2915: the loop runs over a copy of pendingWriteCallbacks_
cancelAllWriteCallbacks(S, err) ==
  cancelWriteCallbacks(S, S.pendingWriteCallbacks, err)

cancelAllAppCallbacks(S, err) ==
  cancelAllAppCallbacksExit(
    cancelAllWriteCallbacks(
      cancelConnWriteCallback(
        cancelAllPeekCallbacks(
          clearDatagramAndPingCallbacks(
            cancelAllReadCallbacks(cancelAllByteEventCallbacks(S), err)),
          err),
        err),
      err))

\* -------------------------------------------------- checkForClosedStream
removeClosedStream(S, id) ==
  [S EXCEPT !.streams = @ \ {id}, !.closedStreams = @ \ {id},
            !.resetSent = @ \ {id},
            !.readable = @ \ {id}, !.peekable = @ \ {id},
            !.deliverable = @ \ {id}, !.txSet = @ \ {id},
            !.pendingData = @ \ {id},
            !.readCallbacks = Erase(@, id), !.peekCallbacks = Erase(@, id)]

\* The test that does not look at the byte-event callbacks
keepClosedStreamForReaders(S, id) ==
  \/ /\ id \in DOMAIN S.readCallbacks
     /\ S.readCallbacks[id].readCb
     /\ \/ S.settings.removeStreamAfterEomCallbackUnset
        \/ ~S.readCallbacks[id].deliveredEOM
  \/ /\ id \in DOMAIN S.peekCallbacks
     /\ S.peekCallbacks[id].peekCb

\* lines 2570-2598: the closed stream is kept while a callback refers to it
keepClosedStream(S, id) ==
  \/ /\ id \in DOMAIN S.readCallbacks
     /\ S.readCallbacks[id].readCb
     /\ \/ S.settings.removeStreamAfterEomCallbackUnset
        \/ ~S.readCallbacks[id].deliveredEOM
  \/ /\ id \in DOMAIN S.peekCallbacks
     /\ S.peekCallbacks[id].peekCb
  \/ getNumByteEventCallbacksForStream(S, id) > 0

\* lines 2600-2616
reapNotify(S, id) ==
  IF S.connCallback
  THEN Invoke(S, Ev("onStreamPreReaped", id, "-", NoOffset, NoErr,
                    "checkForClosedStream"), TRUE)
  ELSE S

\* What the stream had when it was found reapable
ReapedAs(S, id) ==
  [ id |-> id,
    readCb |-> id \in DOMAIN S.readCallbacks /\ S.readCallbacks[id].readCb,
    deliveredEOM |->
       id \in DOMAIN S.readCallbacks /\ S.readCallbacks[id].deliveredEOM,
    peekCb |-> id \in DOMAIN S.peekCallbacks /\ S.peekCallbacks[id].peekCb,
    byteEvents |-> getNumByteEventCallbacksForStream(S, id) ]

reapStream(S, id) ==
  removeClosedStream(
    reapNotify([S EXCEPT !.reaped = Append(@, ReapedAs(S, id))], id), id)

RECURSIVE reapLoop(_, _)
reapLoop(S, todo) ==
  IF S.crashed \/ todo = {} THEN S
  ELSE IF keepClosedStream(S, Min(todo)) THEN reapLoop(S, todo \ {Min(todo)})
  ELSE reapLoop(reapStream(S, Min(todo)), todo \ {Min(todo)})

\* lines 2619-2622
closeIfGracefulAndNoStream(S) ==
  IF ~S.crashed /\ S.closeState = "GRACEFUL_CLOSING" /\ S.streams = {}
  THEN closeImpl(S, NoErr, TRUE, TRUE)
  ELSE S

checkForClosedStream(S) ==
  IF S.crashed \/ S.closeState = "CLOSED" THEN S
  ELSE closeIfGracefulAndNoStream(reapLoop(S, S.closedStreams))

\* ------------------------------------------------------------ closeImpl
NoPendingEvents ==
  [ notifyPingReceived |-> FALSE, cancelPingTimeout |-> FALSE,
    knobs |-> << >>, resets |-> {}, scheduleAckTimeout |-> FALSE,
    schedulePathValidationTimeout |-> FALSE, sendPing |-> FALSE,
    flowControlUpdated |-> {}, stopSending |-> {} ]

maybeSetGenericAppError(e) ==
  IF e = NoErr THEN QuicError("App", "NO_ERROR", "toString(APP_NO_ERROR)")
  ELSE e

processCancelCode(c) ==
  \/ c.type = "Local" /\ c.code \in {"NO_ERROR", "IDLE_TIMEOUT", "SHUTTING_DOWN"}
  \/ c.type = "Transport" /\ c.code = "NO_ERROR"
  \/ c.type = "App" /\ c.code = "NO_ERROR"

processConnectionSetupCallbacks(S, cancelCode) ==
  IF S.connSetupCallback
  THEN Invoke(S, Ev("onConnectionSetupError", -1, "-", NoOffset, cancelCode,
                    "closeImpl"), TRUE)
  ELSE S

processConnectionCallbacks(S, cancelCode) ==
  IF ~S.connCallback THEN S
  ELSE IF S.settings.useConnectionEndWithErrorCallback
       THEN Invoke(S, Ev("onConnectionEndWithError", -1, "-", NoOffset,
                         cancelCode, "closeImpl"), TRUE)
  ELSE IF processCancelCode(cancelCode)
       THEN Invoke(S, Ev("onConnectionEnd", -1, "-", NoOffset, NoErr,
                         "closeImpl"), TRUE)
  ELSE Invoke(S, Ev("onConnectionError", -1, "-", NoOffset, cancelCode,
                    "closeImpl"), TRUE)

closeUdpSocket(S) ==
  IF ~S.socket THEN S ELSE [S EXCEPT !.socket = FALSE, !.writableCb = FALSE]

unbindConnection(S) == [S EXCEPT !.bound = FALSE]

drainTimeoutExpired(S) == unbindConnection(closeUdpSocket(S))

\* lines 322-335
cancelCodeBase(S, errorCode) ==
  IF S.peerConnectionError # NoErr THEN S.peerConnectionError
  ELSE IF errorCode # NoErr THEN errorCode
  ELSE QuicError("Local", "NO_ERROR", "toString(NO_ERROR)")

cancelCodeOf(S, errorCode) ==
  IF S.exceptionCloseWhat # ""
  THEN [cancelCodeBase(S, errorCode) EXCEPT !.msg = S.exceptionCloseWhat]
  ELSE cancelCodeBase(S, errorCode)

isResetCode(c) == c.type = "Local" /\ c.code = "CONNECTION_RESET"

isAbandonCode(c) == c.type = "Local" /\ c.code = "CONNECTION_ABANDONED"

isInvalidMigrationCode(c) == c.type = "Transport" /\ c.code = "INVALID_MIGRATION"

\* The callbacks registered in the transport
RegistrySnapshot(S) ==
  [ read |-> {i \in DOMAIN S.readCallbacks : S.readCallbacks[i].readCb},
    peek |-> {i \in DOMAIN S.peekCallbacks : S.peekCallbacks[i].peekCb},
    be |-> {t \in 1..S.nRegs :
              \E ty \in ByteEventTypes : \E i \in DOMAIN S.byteEvents[ty] :
                \E j \in 1..Len(S.byteEvents[ty][i]) :
                   S.byteEvents[ty][i][j].tk = t},
    connWrite |-> S.connWriteCallback,
    write |-> DOMAIN S.pendingWriteCallbacks ]

RegistriesEmpty(S) ==
  /\ S.readCallbacks = EmptyMap /\ S.peekCallbacks = EmptyMap
  /\ S.byteEvents["ACK"] = EmptyMap /\ S.byteEvents["TX"] = EmptyMap
  /\ ~S.connWriteCallback /\ S.pendingWriteCallbacks = EmptyMap

\* What closeImpl was entered with
closeImplEntry(S, errorCode, drainConnection, sendCloseImmediately) ==
  [NoExit EXCEPT
     !.entryState = S.closeState, !.errorCode = errorCode,
     !.cancelCode = cancelCodeOf(S, errorCode), !.drainIn = drainConnection,
     !.sendIn = sendCloseImmediately, !.shouldDrain = S.settings.shouldDrain,
     !.streamCountAtEntry = Cardinality(S.streams),
     !.regs = RegistrySnapshot(S), !.from = Len(S.log),
     !.pktsRead = S.pktsRead, !.passes = S.passes]

\* closeImpl that stores the error and leaves the close state as it was
closeImplBeginKeepsState(S, errorCode, entry) ==
  [S EXCEPT
     !.localConnectionError = IF errorCode # NoErr THEN errorCode ELSE @,
     !.timers = @ \ {"loss", "ack", "pathValidation", "idle", "keepalive",
                     "ping", "excessWrite"},
     !.readLooper = FALSE, !.peekLooper = FALSE, !.writeLooper = FALSE,
     !.closeImplExit = entry]

\* lines 320-382: state, local error, timers and loopers
closeImplBegin(S, errorCode, entry) ==
  [setCloseState(S, "CLOSED") EXCEPT
     !.localConnectionError = IF errorCode # NoErr THEN errorCode ELSE @,
     !.timers = @ \ {"loss", "ack", "pathValidation", "idle", "keepalive",
                     "ping", "excessWrite"},
     !.readLooper = FALSE, !.peekLooper = FALSE, !.writeLooper = FALSE,
     !.closeImplExit = entry]

\* lines 387-407: closeTransport(), clearOpenStreams(), datagram buffers,
\* pendingEvents, actionable and writable streams
clearConnStateOnClose(S) ==
  [S EXCEPT !.streams = {}, !.closedStreams = {}, !.resetSent = {},
            !.readable = {},
            !.peekable = {}, !.deliverable = {}, !.txSet = {},
            !.newPeerStreams = << >>, !.newPeerStreamGroups = << >>,
            !.pendingData = {},
            !.datagramState.readBuffer = << >>,
            !.datagramState.writeBuffer = << >>,
            !.ackedOffset = [i \in StreamIds |-> -1],
            !.txOffset = [i \in StreamIds |-> -1],
            !.pendingEvents = NoPendingEvents,
            !.closeImplExit.termConn = S.connCallback,
            !.closeImplExit.termSetup = S.connSetupCallback,
            !.closeImplExit.termReady = S.transportReadyNotified]

\* lines 409-416
closeImplTerminal(S) ==
  IF S.transportReadyNotified
  THEN processConnectionCallbacks(S, S.closeImplExit.cancelCode)
  ELSE processConnectionSetupCallbacks(S, S.closeImplExit.cancelCode)

\* closeImpl that keeps the outstanding packets
closeImplReleaseKeepsOutstandings(S) ==
  [resetConnectionCallbacks(S) EXCEPT !.congestionController = FALSE]

\* lines 419-425
closeImplRelease(S) ==
  [resetConnectionCallbacks(S) EXCEPT !.outstandings = 0,
                                      !.congestionController = FALSE]

\* writeData() of a closed connection writes the connection close
writeDataOnClose(S) == [S EXCEPT !.closeSent = TRUE, !.bufferedWrite = FALSE]

\* lines 427-437
closeImplWrite(S) ==
  IF /\ S.closeImplExit.sendIn
     /\ ~isResetCode(S.closeImplExit.cancelCode)
     /\ ~isAbandonCode(S.closeImplExit.cancelCode)
  THEN [writeDataOnClose(S) EXCEPT !.closeImplExit.wroteClose = TRUE]
  ELSE S

\* The drain decision without transportSettings.shouldDrain
closeImplDrainIgnoresSetting(S) ==
  IF /\ S.closeImplExit.drainIn
     /\ ~isResetCode(S.closeImplExit.cancelCode)
     /\ ~isAbandonCode(S.closeImplExit.cancelCode)
     /\ ~isInvalidMigrationCode(S.closeImplExit.cancelCode)
  THEN scheduleTimeout(
         [S EXCEPT !.closeImplExit.drainWasScheduled =
                      isTimeoutScheduled(S, "drain")], "drain")
  ELSE drainTimeoutExpired(
         [S EXCEPT !.closeImplExit.drainWasScheduled =
                      isTimeoutScheduled(S, "drain")])

\* lines 438-449
closeImplDrain(S) ==
  IF /\ S.closeImplExit.drainIn /\ S.closeImplExit.shouldDrain
     /\ ~isResetCode(S.closeImplExit.cancelCode)
     /\ ~isAbandonCode(S.closeImplExit.cancelCode)
     /\ ~isInvalidMigrationCode(S.closeImplExit.cancelCode)
  THEN scheduleTimeout(
         [S EXCEPT !.closeImplExit.drainWasScheduled =
                      isTimeoutScheduled(S, "drain")], "drain")
  ELSE drainTimeoutExpired(
         [S EXCEPT !.closeImplExit.drainWasScheduled =
                      isTimeoutScheduled(S, "drain")])

\* The state in which closeImpl returns
closeImplReturn(S) ==
  [S EXCEPT !.closeImplExit =
     [@ EXCEPT !.done = TRUE, !.closeState = S.closeState,
               !.timers = S.timers, !.readLooper = S.readLooper,
               !.peekLooper = S.peekLooper, !.writeLooper = S.writeLooper,
               !.outstandings = S.outstandings,
               !.congestionController = S.congestionController,
               !.socket = S.socket, !.bound = S.bound,
               !.seg = SubSeq(S.log, S.closeImplExit.from + 1, Len(S.log)),
               !.empty = RegistriesEmpty(S)]]

\* closeImpl from closeTransport() to its end (lines 386-449)
closeImplFinish(S) ==
  IF S.crashed THEN S
  ELSE closeImplReturn(closeImplDrain(closeImplWrite(closeImplRelease(
         closeImplTerminal(clearConnStateOnClose(S))))))

closeImpl(S, errorCode, drainConnection, sendCloseImmediately) ==
  IF S.crashed \/ S.closeState = "CLOSED" THEN S
  ELSE closeImplFinish(
         cancelAllAppCallbacks(
           closeImplBegin(S, errorCode,
                          closeImplEntry(S, errorCode, drainConnection,
                                         sendCloseImmediately)),
           cancelCodeOf(S, errorCode)))

close(S, errorCode) ==
  closeImpl(resetConnectionCallbacks(S), maybeSetGenericAppError(errorCode),
            TRUE, TRUE)

\* lines 226-229
closeNowDrain(S) ==
  IF ~S.crashed /\ isTimeoutScheduled(S, "drain")
  THEN drainTimeoutExpired(cancelTimeout(S, "drain"))
  ELSE S

\* What closeNow() leaves behind at the moment it returns
closeNowReturns(S) ==
  IF S.crashed THEN S
  ELSE [S EXCEPT !.closeNowExit =
          Append(@, [drain |-> isTimeoutScheduled(S, "drain"),
                     socket |-> S.socket, bound |-> S.bound,
                     closeState |-> S.closeState])]

closeNow(S, errorCode) ==
  closeNowReturns(
    closeNowDrain(closeImpl(S, maybeSetGenericAppError(errorCode), FALSE, TRUE)))

\* lines 238-248
closeGracefullyBegin(S) ==
  [setCloseState(resetConnectionCallbacks(S), "GRACEFUL_CLOSING") EXCEPT
     !.readLooper = FALSE, !.peekLooper = FALSE]

\* closeGracefully that closes whether or not a stream is left
closeGracefullyEndAlways(S) ==
  IF ~S.crashed THEN closeImpl(S, NoErr, TRUE, TRUE) ELSE S

\* lines 252-254
closeGracefullyEnd(S) ==
  IF ~S.crashed /\ S.streams = {} THEN closeImpl(S, NoErr, TRUE, TRUE) ELSE S

\* closeGracefully without its guard on closeState_
closeGracefullyUnguarded(S) ==
  IF S.crashed THEN S
  ELSE closeGracefullyEnd(
         cancelAllAppCallbacks(
           closeGracefullyBegin(S),
           QuicError("Local", "NO_ERROR", "Graceful Close")))

closeGracefully(S) ==
  IF S.crashed \/ S.closeState \in {"CLOSED", "GRACEFUL_CLOSING"} THEN S
  ELSE closeGracefullyEnd(
         cancelAllAppCallbacks(
           closeGracefullyBegin(S),
           QuicError("Local", "NO_ERROR", "Graceful Close")))

\* ------------------------------------------------------ application API
\* stream->writable(): the send side of the stream is still open
writable(S, id) ==
  id \in S.streams /\ id \notin S.closedStreams /\ id \notin S.resetSent

\* getEventBase()->runInLoop(...): the closure remembers the event base
runOnEvbAsync(S, kind, type, id, offset, cb) ==
  [S EXCEPT !.asyncQ = Append(@, [kind |-> kind, type |-> type, id |-> id,
                                  offset |-> offset, cb |-> cb,
                                  evb |-> S.evb])]

\* The server's next bidirectional stream is 1, its next unidirectional 3;
\* the stream manager refuses a stream beyond the peer's limit.
nextStreamId(bidirectional) == IF bidirectional THEN 1 ELSE 3

createStreamInternal(S, bidirectional) ==
  IF S.closeState # "OPEN" THEN Ret(S, "CONNECTION_CLOSED")
  ELSE IF nextStreamId(bidirectional) \in S.created
       THEN Ret(S, "STREAM_LIMIT_EXCEEDED")
  ELSE Ret([S EXCEPT !.streams = @ \cup {nextStreamId(bidirectional)},
                     !.created = @ \cup {nextStreamId(bidirectional)}], "OK")

\* The STOP_SENDING frame of stream id among what waits to be written
StopSendingFrame(id) == 0 - id

\* sendSimpleFrame(STOP_SENDING): the frame waits to be written; a stream
\* whose receive side is closed gets none
\* A stopSending that does not look at the receive state
stopSendingWhateverState(S, id) ==
  IF isSendingStream(id) THEN Ret(S, "INVALID_OPERATION")
  ELSE IF S.closeState # "OPEN" THEN Ret(S, "CONNECTION_CLOSED")
  ELSE IF id \notin S.streams THEN Ret(S, "STREAM_NOT_EXISTS")
  ELSE Ret(updateWriteLooper(
             [S EXCEPT !.pendingData = @ \cup {StopSendingFrame(id)}]), "OK")

stopSending(S, id) ==
  IF isSendingStream(id) THEN Ret(S, "INVALID_OPERATION")
  ELSE IF S.closeState # "OPEN" THEN Ret(S, "CONNECTION_CLOSED")
  ELSE IF id \notin S.streams THEN Ret(S, "STREAM_NOT_EXISTS")
  ELSE IF id \in S.closedStreams THEN Ret(S, "OK")
  ELSE Ret(updateWriteLooper(
             [S EXCEPT !.pendingData = @ \cup {StopSendingFrame(id)}]), "OK")

\* The setter that lets a callback replace a null entry
setReadCbOverNull(S, id, cb, err) ==
  IF ~cb /\ err
  THEN stopSending([S EXCEPT !.readCallbacks[id].readCb = cb], id)
  ELSE Ret(updateReadLooper([S EXCEPT !.readCallbacks[id].readCb = cb]), "OK")

\* lines 781-792, on an entry that exists
setReadCb(S, id, cb, err) ==
  IF ~S.readCallbacks[id].readCb /\ cb THEN Ret(S, "INVALID_OPERATION")
  ELSE IF ~cb /\ err
       THEN stopSending([S EXCEPT !.readCallbacks[id].readCb = cb], id)
  ELSE Ret(updateReadLooper([S EXCEPT !.readCallbacks[id].readCb = cb]), "OK")

setReadCallbackInternal(S, id, cb, err) ==
  IF id \in DOMAIN S.readCallbacks THEN setReadCb(S, id, cb, err)
  ELSE IF ~cb THEN Ret(S, "INVALID_OPERATION")
  ELSE setReadCb([S EXCEPT !.readCallbacks =
                     Put(@, id, [readCb |-> cb, resumed |-> TRUE,
                                 deliveredEOM |-> FALSE])],
                 id, cb, err)

setReadCallback(S, id, cb, err) ==
  IF isSendingStream(id) THEN Ret(S, "INVALID_OPERATION")
  ELSE IF S.closeState # "OPEN" THEN Ret(S, "CONNECTION_CLOSED")
  ELSE IF id \notin S.streams THEN Ret(S, "STREAM_NOT_EXISTS")
  ELSE setReadCallbackInternal(S, id, cb, err)

pauseOrResumeRead(S, id, resume) ==
  IF isSendingStream(id) THEN Ret(S, "INVALID_OPERATION")
  ELSE IF S.closeState # "OPEN" THEN Ret(S, "CONNECTION_CLOSED")
  ELSE IF id \notin S.streams THEN Ret(S, "STREAM_NOT_EXISTS")
  ELSE IF id \notin DOMAIN S.readCallbacks THEN Ret(S, "APP_ERROR")
  ELSE IF S.readCallbacks[id].resumed # resume
       THEN Ret(updateReadLooper([S EXCEPT !.readCallbacks[id].resumed = resume]),
                "OK")
  ELSE Ret(S, "OK")

\* lines 989-1006
pauseOrResumePeek(S, id, resume) ==
  IF S.closeState # "OPEN" THEN Ret(S, "CONNECTION_CLOSED")
  ELSE IF id \notin S.streams THEN Ret(S, "STREAM_NOT_EXISTS")
  ELSE IF id \notin DOMAIN S.peekCallbacks THEN Ret(S, "APP_ERROR")
  ELSE IF S.peekCallbacks[id].resumed # resume
       THEN Ret(updatePeekLooper([S EXCEPT !.peekCallbacks[id].resumed = resume]),
                "OK")
  ELSE Ret(S, "OK")

setPeekCallbackInternal(S, id, cb) ==
  IF id \in DOMAIN S.peekCallbacks
  THEN Ret(updatePeekLooper([S EXCEPT !.peekCallbacks[id].peekCb = cb]), "OK")
  ELSE IF ~cb THEN Ret(S, "INVALID_OPERATION")
  ELSE Ret(updatePeekLooper(
             [S EXCEPT !.peekCallbacks =
                Put(@, id, [peekCb |-> cb, resumed |-> TRUE])]), "OK")

\* setPeekCallback returns unit whatever setPeekCallbackInternal returned
setPeekCallback(S, id, cb) ==
  IF S.closeState # "OPEN" THEN Ret(S, "CONNECTION_CLOSED")
  ELSE IF id \notin S.streams THEN Ret(S, "STREAM_NOT_EXISTS")
  ELSE Ret(setPeekCallbackInternal(S, id, cb), "OK")

\* SCOPE_EXIT of read (lines 1287-1291)
readExit(S) == updateWriteLooper(updatePeekLooper(updateReadLooper(S)))

\* readDataFromQuicStream: the stream's data is taken; the end of a closed
\* stream is delivered with it (lines 1297-1308)
readData(S, id) ==
  [S EXCEPT !.readable = @ \ {id},
            !.readCallbacks =
               IF id \in DOMAIN @ /\ id \in S.closedStreams
               THEN [@ EXCEPT ![id].deliveredEOM = TRUE] ELSE @]

read(S, id) ==
  IF isSendingStream(id) THEN Ret(S, "INVALID_OPERATION")
  ELSE IF S.closeState # "OPEN" THEN Ret(S, "CONNECTION_CLOSED")
  ELSE IF id \notin S.streams THEN Ret(readExit(S), "STREAM_NOT_EXISTS")
  ELSE Ret(readExit(readData(S, id)), "OK")

\* SCOPE_EXIT of peek (lines 1340-1343)
peekExit(S) == updateWriteLooper(updatePeekLooper(S))

peek(S, id) ==
  IF S.closeState # "OPEN" THEN Ret(S, "CONNECTION_CLOSED")
  ELSE IF id \notin S.streams THEN Ret(peekExit(S), "STREAM_NOT_EXISTS")
  ELSE Ret(peekExit(S), "OK")

\* SCOPE_EXIT of consume (lines 1386-1390)
consumeExit(S) == updateWriteLooper(updateReadLooper(updatePeekLooper(S)))

\* consume(id, amount) reads the stream's offset and calls
\* consume(id, offset, amount)
consume(S, id) ==
  IF id \notin S.streams THEN Ret(S, "STREAM_NOT_EXISTS")
  ELSE IF S.closeState # "OPEN" THEN Ret(S, "CONNECTION_CLOSED")
  ELSE Ret(consumeExit([S EXCEPT !.readable = @ \ {id},
                                 !.peekable = @ \ {id}]), "OK")

\* The end of the queue, whatever the offsets
upperBoundIsEnd(q, offset) == Len(q) + 1

\* std::upper_bound over the offsets of the queue q
upperBound(q, offset) ==
  1 + Cardinality({j \in 1..Len(q) : q[j].offset <= offset})

queueOf(S, type, id) ==
  IF id \in DOMAIN S.byteEvents[type] THEN S.byteEvents[type][id] ELSE << >>

\* The search that finds no equal entry
matchingEventNotFound(q, offset, cb) == FALSE

\* lines 2409-2421: an equal entry before the insertion point
matchingEvent(q, offset, cb) ==
  \E j \in 1..(upperBound(q, offset) - 1) :
     q[j].offset = offset /\ q[j].cb = cb

\* The entry put at the front of the queue whatever its offset
emplaceByteEventAtFront(S, type, id, offset, cb) ==
  [S EXCEPT
     !.byteEvents[type] =
        Put(@, id, << [offset |-> offset, cb |-> cb, tk |-> S.nRegs + 1] >>
                   \o queueOf(S, type, id)),
     !.nRegs = @ + 1,
     !.notes = Append(@, [fired |-> 0, canceled |-> 0])]

\* lines 2396-2424: the entry is put at the upper bound of its offset
emplaceByteEvent(S, type, id, offset, cb) ==
  [S EXCEPT
     !.byteEvents[type] =
        Put(@, id, InsertAt(queueOf(S, type, id),
                            upperBound(queueOf(S, type, id), offset),
                            [offset |-> offset, cb |-> cb,
                             tk |-> S.nRegs + 1])),
     !.nRegs = @ + 1,
     !.notes = Append(@, [fired |-> 0, canceled |-> 0])]

\* The stream pointer is fetched (line 2425) before onByteEventRegistered
\* runs.  If that callback closed the connection the stream is destroyed and
\* the pointer dangles: the offset read through it is whatever the freed
\* memory holds, the old value S0 had or none, as chosen by S.stale.
maxOffsetReadyVia(S, S0, type, id) ==
  IF id \in S.streams THEN maxOffsetReady(S, type, id)
  ELSE IF S.stale THEN maxOffsetReady(S0, type, id) ELSE -1

useStreamPointer(S, id) ==
  IF id \in S.streams THEN S ELSE [S EXCEPT !.ub = TRUE]

\* lines 2430-2475
scheduleIfReady(S, S0, type, id, offset, cb) ==
  IF S.crashed THEN S
  ELSE IF offset <= maxOffsetReadyVia(S, S0, type, id)
       THEN Ret(runOnEvbAsync(useStreamPointer(S, id), "byteEvent", type, id,
                              offset, cb), "OK")
  ELSE Ret(useStreamPointer(S, id), "OK")

registerByteEventCallback(S, type, id, offset, cb) ==
  IF isReceivingStream(id) THEN Ret(S, "INVALID_OPERATION")
  ELSE IF S.closeState # "OPEN" THEN Ret(S, "CONNECTION_CLOSED")
  ELSE IF id \notin S.streams THEN Ret(S, "STREAM_NOT_EXISTS")
  ELSE IF cb = 0 THEN Ret(S, "OK")
  ELSE IF matchingEvent(queueOf(S, type, id), offset, cb)
       THEN Ret(S, "INVALID_OPERATION")
  ELSE scheduleIfReady(
         Invoke(emplaceByteEvent(S, type, id, offset, cb),
                Ev("onByteEventRegistered", id, type, offset, NoErr,
                   "registerByteEventCallback"), TRUE),
         S, type, id, offset, cb)

\* The position of the closure's entry in the queue (lines 2460-2465)
findEntry(q, offset, cb) ==
  {j \in 1..Len(q) : q[j].offset = offset /\ q[j].cb = cb}

\* The closure scheduled by registerByteEventCallback (lines 2442-2473)
runByteEventClosure(S, c) ==
  IF S.closeState # "OPEN" THEN S
  ELSE IF c.id \notin DOMAIN S.byteEvents[c.type] THEN S
  ELSE IF findEntry(S.byteEvents[c.type][c.id], c.offset, c.cb) = {} THEN S
  ELSE NotifyFired(
         [S EXCEPT !.byteEvents[c.type][c.id] =
            RemoveAt(@, Min(findEntry(@, c.offset, c.cb)))],
         c.type, c.id,
         S.byteEvents[c.type][c.id][
            Min(findEntry(S.byteEvents[c.type][c.id], c.offset, c.cb))],
         "runOnEvbAsync")

\* Flow control is not modelled: the connection and stream windows are open.
maxWritableOnConn(S) == 1

maxWritableOnStream(S, id) == 1

notifyPendingWriteOnConnection(S, wcb) ==
  IF S.closeState # "OPEN" THEN Ret(S, "CONNECTION_CLOSED")
  ELSE IF S.connWriteCallback THEN Ret(S, "INVALID_WRITE_CALLBACK")
  ELSE Ret(runOnEvbAsync([S EXCEPT !.connWriteCallback = wcb],
                         "connWrite", "-", -1, NoOffset, 0), "OK")

runConnWriteClosure(S, c) ==
  IF ~S.connWriteCallback THEN S
  ELSE IF maxWritableOnConn(S) # 0
       THEN Invoke([S EXCEPT !.connWriteCallback = FALSE],
                   Ev("onConnectionWriteReady", -1, "-", NoOffset, NoErr,
                      "runOnEvbAsync"), TRUE)
  ELSE S

notifyPendingWriteOnStream(S, id, wcb) ==
  IF isReceivingStream(id) THEN Ret(S, "INVALID_OPERATION")
  ELSE IF S.closeState # "OPEN" THEN Ret(S, "CONNECTION_CLOSED")
  ELSE IF id \notin S.streams THEN Ret(S, "STREAM_NOT_EXISTS")
  ELSE IF ~writable(S, id) THEN Ret(S, "STREAM_CLOSED")
  ELSE IF ~wcb THEN Ret(S, "INVALID_WRITE_CALLBACK")
  ELSE IF id \in DOMAIN S.pendingWriteCallbacks
       THEN Ret(S, "CALLBACK_ALREADY_INSTALLED")
  ELSE Ret(runOnEvbAsync([S EXCEPT !.pendingWriteCallbacks = Put(@, id, wcb)],
                         "streamWrite", "-", id, NoOffset, 0), "OK")

runStreamWriteClosure(S, c) ==
  IF c.id \notin DOMAIN S.pendingWriteCallbacks THEN S
  ELSE IF c.id \notin S.streams \/ ~writable(S, c.id)
       THEN Invoke([S EXCEPT !.pendingWriteCallbacks = Erase(@, c.id)],
                   Ev("onStreamWriteError", c.id, "-", NoOffset,
                      QuicError("Local", "STREAM_NOT_EXISTS", ""),
                      "runOnEvbAsync"), TRUE)
  ELSE IF maxWritableOnStream(S, c.id) # 0
       THEN Invoke([S EXCEPT !.pendingWriteCallbacks = Erase(@, c.id)],
                   Ev("onStreamWriteReady", c.id, "-", NoOffset, NoErr,
                      "runOnEvbAsync"), TRUE)
  ELSE S

\* The loop callback installed by runOnEvbAsync (lines 3556-3563)
runAsyncClosure(S, c) ==
  IF S.evb # c.evb THEN S
  ELSE CASE c.kind = "byteEvent" -> runByteEventClosure(S, c)
         [] c.kind = "connWrite" -> runConnWriteClosure(S, c)
         [] OTHER -> runStreamWriteClosure(S, c)

setPingCallback(S, cb) ==
  IF S.closeState # "OPEN" THEN Ret(S, "CONNECTION_CLOSED")
  ELSE Ret([S EXCEPT !.pingCallback = cb], "OK")

schedulePingTimeout(S, pingCb) ==
  IF isTimeoutScheduled(S, "ping") THEN S
  ELSE scheduleTimeout([S EXCEPT !.pingCallback = pingCb], "ping")

\* lines 2646-2649
sendPingTimeout(S, pingTimeout) ==
  IF S.pingCallback /\ pingTimeout # 0
  THEN schedulePingTimeout(S, S.pingCallback)
  ELSE S

sendPing(S, pingTimeout) ==
  IF S.closeState = "CLOSED" THEN S
  ELSE sendPingTimeout(
         updateWriteLooper([S EXCEPT !.pendingEvents.sendPing = TRUE]),
         pingTimeout)

\* writeChain that does not look at the direction of the stream
writeChainAnyDirection(S, id) ==
  IF S.closeState # "OPEN" THEN Ret(S, "CONNECTION_CLOSED")
  ELSE IF id \notin S.streams THEN Ret(S, "STREAM_NOT_EXISTS")
  ELSE IF ~writable(S, id) THEN Ret(S, "STREAM_CLOSED")
  ELSE Ret(updateWriteLooper([S EXCEPT !.pendingData = @ \cup {id}]), "OK")

\* writeChain without a delivery callback: the data waits to be written
writeChain(S, id) ==
  IF isReceivingStream(id) THEN Ret(S, "INVALID_OPERATION")
  ELSE IF S.closeState # "OPEN" THEN Ret(S, "CONNECTION_CLOSED")
  ELSE IF id \notin S.streams THEN Ret(S, "STREAM_NOT_EXISTS")
  ELSE IF ~writable(S, id) THEN Ret(S, "STREAM_CLOSED")
  ELSE Ret(updateWriteLooper([S EXCEPT !.pendingData = @ \cup {id}]), "OK")

\* SCOPE_EXIT of resetStream (lines 2495-2500)
resetStreamExit(S) ==
  IF S.crashed THEN S
  ELSE updateWriteLooper(updatePeekLooper(updateReadLooper(
         checkForClosedStream(S))))

\* lines 2511-2516: byte events of every stream with a pending reset
RECURSIVE cancelPendingResets(_, _)
cancelPendingResets(S, ids) ==
  IF S.crashed \/ ids = {} \/ S.closeState # "OPEN" THEN S
  ELSE cancelPendingResets(
         cancelByteEventCallbacksForStreamAllTypes(S, Min(ids), NoOffset,
                                                   "resetStream"),
         ids \ {Min(ids)})

\* sendRstSMHandler: the send side is reset, a RESET_STREAM frame is pending
sendRstSMHandler(S, id) ==
  [S EXCEPT !.resetSent = @ \cup {id}, !.pendingEvents.resets = @ \cup {id},
            !.pendingData = (@ \ {id}) \cup {0}]

\* lines 2511-2517
resetStreamCancel(S, id) ==
  [cancelPendingResets(S, S.pendingEvents.resets)
     EXCEPT !.pendingWriteCallbacks = Erase(@, id)]

resetStream(S, id) ==
  IF isReceivingStream(id) THEN Ret(S, "INVALID_OPERATION")
  ELSE IF S.closeState # "OPEN" THEN Ret(S, "CONNECTION_CLOSED")
  ELSE IF id \notin S.streams
       THEN Ret(resetStreamExit(S), "STREAM_NOT_EXISTS")
  ELSE Ret(resetStreamExit(resetStreamCancel(sendRstSMHandler(S, id), id)),
           "OK")

isBidirectionalStream(id) == id % 4 \in {0, 1}

\* lines 2929-2937: the write callback of the stream is told of the error
\* and the stream is reset
resetNonControlWrite(S, id, err) ==
  IF S.crashed \/ ~(isSendingStream(id) \/ isBidirectionalStream(id)) THEN S
  ELSE resetStream(
         IF id \in DOMAIN S.pendingWriteCallbacks
         THEN Invoke(S, Ev("onStreamWriteError", id, "-", NoOffset, err,
                           "resetNonControlStreams"), TRUE)
         ELSE S,
         id)

\* lines 2939-2950
resetNonControlReadError(S, id, err) ==
  IF id \in DOMAIN S.readCallbacks /\ S.readCallbacks[id].readCb
  THEN (IF id \notin S.streams THEN [S EXCEPT !.crashed = TRUE]
        ELSE Invoke(S, Ev("readError", id, "-", NoOffset, err,
                          "resetNonControlStreams"), TRUE))
  ELSE S

\* lines 2951-2952
resetNonControlReadEnd(S, id) ==
  IF S.crashed THEN S
  ELSE stopSending([S EXCEPT !.peekCallbacks = Erase(@, id)], id)

\* lines 2938-2953
resetNonControlRead(S, id, err) ==
  IF S.crashed \/ ~(isReceivingStream(id) \/ isBidirectionalStream(id)) THEN S
  ELSE resetNonControlReadEnd(resetNonControlReadError(S, id, err), id)

\* lines 2928-2954: the loop over the ids the stream manager had at entry
RECURSIVE resetNonControlLoop(_, _, _)
resetNonControlLoop(S, ids, err) ==
  IF S.crashed \/ ids = {} THEN S
  ELSE resetNonControlLoop(
         resetNonControlRead(resetNonControlWrite(S, Min(ids), err),
                             Min(ids), err),
         ids \ {Min(ids)}, err)

\* resetNonControlStreams returns nothing
resetNonControlStreams(S, err) ==
  [resetNonControlLoop(S, S.streams, err) EXCEPT !.ret = "-"]

\* ------------------------------------------------------- timer scheduling
\* lines 2040-2054
armIdleTimer(S) ==
  IF ~S.settings.idleTimeoutEnabled THEN S
  ELSE IF S.settings.enableKeepalive
       THEN scheduleTimeout(
              scheduleTimeout([S EXCEPT !.idleSet = TRUE], "idle"), "keepalive")
  ELSE scheduleTimeout([S EXCEPT !.idleSet = TRUE], "idle")

setIdleTimer(S) ==
  IF S.closeState = "CLOSED" THEN S
  ELSE armIdleTimer(cancelTimeout(cancelTimeout(S, "idle"), "keepalive"))

scheduleLossTimeout(S) ==
  IF S.closeState = "CLOSED" THEN S ELSE scheduleTimeout(S, "loss")

\* setLossDetectionAlarm(*conn_, *this): an alarm while packets are in flight
setLossDetectionAlarm(S) ==
  IF S.outstandings > 0 THEN scheduleLossTimeout(S)
  ELSE cancelTimeout(S, "loss")

scheduleAckTimeout(S) ==
  IF S.closeState = "CLOSED" THEN S
  ELSE IF S.pendingEvents.scheduleAckTimeout
       THEN (IF ~isTimeoutScheduled(S, "ack") THEN scheduleTimeout(S, "ack")
             ELSE S)
       ELSE (IF isTimeoutScheduled(S, "ack") THEN cancelTimeout(S, "ack")
             ELSE S)

schedulePathValidationTimeout(S) ==
  IF S.closeState = "CLOSED" THEN S
  ELSE IF ~S.pendingEvents.schedulePathValidationTimeout
       THEN (IF isTimeoutScheduled(S, "pathValidation")
             THEN cancelTimeout(S, "pathValidation") ELSE S)
       ELSE (IF ~isTimeoutScheduled(S, "pathValidation")
             THEN scheduleTimeout(S, "pathValidation") ELSE S)

\* ------------------------------------------------- dispatch of callbacks
\* handleNewStreams over the consumed list of peer-opened streams
RECURSIVE newStreamLoop(_, _)
newStreamNotify(S, id) ==
  IF ~S.connCallback THEN [S EXCEPT !.crashed = TRUE]
  ELSE Invoke(S, Ev(IF id % 4 \in {0, 1} THEN "onNewBidirectionalStream"
                    ELSE "onNewUnidirectionalStream",
                    id, "-", NoOffset, NoErr, "handleNewStreams"), TRUE)

newStreamNext(S, ids) ==
  IF S.crashed \/ S.closeState # "OPEN" THEN S ELSE newStreamLoop(S, ids)

newStreamLoop(S, ids) ==
  IF ids = << >> THEN S
  ELSE newStreamNext(newStreamNotify(S, Head(ids)), Tail(ids))

handleNewStreamCallbacks(S) ==
  newStreamLoop([S EXCEPT !.newPeerStreams = << >>], S.newPeerStreams)

\* handleNewGroupedStreamCallbacks: the consumed group list is a local copy;
\* connCallback_ is called without a null check and closeState_ is not
\* looked at between two callbacks.
RECURSIVE groupLoop(_, _)
groupLoop(S, gs) ==
  IF S.crashed \/ gs = << >> THEN S
  ELSE groupLoop(Invoke(S, Ev("onNewStreamGroup", Head(gs), "-", NoOffset,
                              NoErr, "handleNewGroupedStreamCallbacks"),
                        S.connCallback),
                 Tail(gs))

handleNewGroupedStreamCallbacks(S) ==
  groupLoop([S EXCEPT !.newPeerStreamGroups = << >>], S.newPeerStreamGroups)

\* lines 1445-1450
pingReceived(S) ==
  IF S.pendingEvents.notifyPingReceived /\ S.pingCallback
  THEN Invoke([S EXCEPT !.pendingEvents.notifyPingReceived = FALSE],
              Ev("onPing", -1, "-", NoOffset, NoErr, "handlePingCallbacks"),
              TRUE)
  ELSE S

\* lines 1461-1464
pingAcknowledged(S) ==
  IF S.pingCallback
  THEN Invoke(S, Ev("pingAcknowledged", -1, "-", NoOffset, NoErr,
                    "handlePingCallbacks"), TRUE)
  ELSE S

clearCancelPingTimeout(S) ==
  IF S.crashed THEN S ELSE [S EXCEPT !.pendingEvents.cancelPingTimeout = FALSE]

\* lines 1452-1464
pingTimeoutCancel(S) ==
  IF S.crashed \/ ~S.pendingEvents.cancelPingTimeout THEN S
  ELSE IF ~isTimeoutScheduled(S, "ping") THEN clearCancelPingTimeout(S)
  ELSE clearCancelPingTimeout(pingAcknowledged(cancelTimeout(S, "ping")))

handlePingCallbacks(S) == pingTimeoutCancel(pingReceived(S))

\* The range-for walks conn_->pendingEvents.knobs itself.  A callback that
\* closes the connection replaces pendingEvents, so the loop goes on over
\* the freed vector (undefined behaviour): the next frame reads either as
\* it was (a call through the now null connCallback_) or as the default
\* knob space, as chosen by S.stale.
knobSpace(S, ks) ==
  IF S.closeState = "CLOSED" /\ ~S.stale THEN "default" ELSE Head(ks)

knobsVectorUse(S) ==
  IF S.closeState = "CLOSED" THEN [S EXCEPT !.ub = TRUE] ELSE S

knobFrame(S, space) ==
  IF space # "default"
  THEN Invoke(S, Ev("onKnob", -1, "-", NoOffset, NoErr, "handleKnobCallbacks"),
              S.connCallback)
  ELSE S

RECURSIVE knobLoop(_, _)
knobLoop(S, ks) ==
  IF S.crashed \/ ks = << >> THEN S
  ELSE knobLoop(knobFrame(knobsVectorUse(S), knobSpace(S, ks)), Tail(ks))

clearKnobs(S) ==
  IF S.crashed THEN S ELSE [S EXCEPT !.pendingEvents.knobs = << >>]

handleKnobCallbacks(S) ==
  IF ~S.settings.advertisedKnobFrameSupport THEN clearKnobs(S)
  ELSE clearKnobs(knobLoop(S, S.pendingEvents.knobs))

RECURSIVE resetsLoop(_, _)
resetsNext(S, ids) ==
  IF S.crashed \/ S.closeState # "OPEN" THEN S ELSE resetsLoop(S, ids)

resetsLoop(S, ids) ==
  IF ids = {} THEN S
  ELSE resetsNext(
         cancelByteEventCallbacksForStreamAllTypes(
           S, Min(ids), NoOffset, "handleCancelByteEventCallbacks"),
         ids \ {Min(ids)})

handleCancelByteEventCallbacks(S) == resetsLoop(S, S.pendingEvents.resets)

\* The test that lets every queued entry through
hasCallbacksToCallAtAll(S, type, id, max) ==
  /\ id \in DOMAIN S.byteEvents[type]
  /\ S.byteEvents[type][id] # << >>

\* hasDeliveryCallbacksToCall, and the test of getNextTxCallbackForStream-
\* AndCleanup: the front of the queue is at or below the offset max
hasCallbacksToCall(S, type, id, max) ==
  /\ id \in DOMAIN S.byteEvents[type]
  /\ S.byteEvents[type][id] # << >>
  /\ Head(S.byteEvents[type][id]).offset <= max

\* pop_front(); the TX path erases the map entry of a queue it emptied
popForFire(S, type, id) ==
  IF type = "TX" /\ Len(S.byteEvents[type][id]) = 1
  THEN [S EXCEPT !.byteEvents[type] = Erase(@, id)]
  ELSE [S EXCEPT !.byteEvents[type][id] = Tail(@)]

\* One byte-event queue drained up to the offset that became ready (the
\* inner loops of handleDeliveryCallbacks and processCallbacksAfterWriteData)
RECURSIVE fireLoop(_, _, _, _, _)
fireNext(S, type, id, max, by) ==
  IF S.crashed \/ S.closeState # "OPEN" THEN S
  ELSE fireLoop(S, type, id, max, by)

fireLoop(S, type, id, max, by) ==
  IF ~hasCallbacksToCall(S, type, id, max) THEN S
  ELSE fireNext(NotifyFired(popForFire(S, type, id), type, id,
                            Head(S.byteEvents[type][id]), by),
                type, id, max, by)

\* lines 1712-1716
eraseIfEmpty(S, type, id) ==
  IF S.crashed \/ S.closeState # "OPEN" THEN S
  ELSE IF id \in DOMAIN S.byteEvents[type] /\ S.byteEvents[type][id] = << >>
       THEN [S EXCEPT !.byteEvents[type] = Erase(@, id)]
  ELSE S

\* One round of the outer loop of handleDeliveryCallbacks
\* What handleDeliveryCallbacks leaves of the stream it has finished
deliveredAs(S, id, max) ==
  IF S.crashed \/ S.closeState # "OPEN" THEN S
  ELSE [S EXCEPT !.delivered =
          Append(@, [id |-> id, max |-> max,
                     left |-> {queueOf(S, "ACK", id)[j].offset :
                                 j \in 1..Len(queueOf(S, "ACK", id))}])]

deliverStream(S, id) ==
  IF id \notin S.streams THEN [S EXCEPT !.crashed = TRUE]
  ELSE IF maxOffsetReady(S, "ACK", id) >= 0
       THEN eraseIfEmpty(
              deliveredAs(
                fireLoop(S, "ACK", id, maxOffsetReady(S, "ACK", id),
                         "handleDeliveryCallbacks"),
                id, maxOffsetReady(S, "ACK", id)),
              "ACK", id)
  ELSE eraseIfEmpty(S, "ACK", id)

RECURSIVE popDeliverableLoop(_)
popDeliverableLoop(S) ==
  IF S.crashed \/ S.closeState # "OPEN" \/ S.deliverable = {} THEN S
  ELSE popDeliverableLoop(
         deliverStream([S EXCEPT !.deliverable = @ \ {Min(S.deliverable)}],
                       Min(S.deliverable)))

handleDeliveryCallbacks(S) == popDeliverableLoop(S)

\* One round of the outer loop of processCallbacksAfterWriteData
txStream(S, id) ==
  IF id \notin S.streams \/ maxOffsetReady(S, "TX", id) < 0
  THEN [S EXCEPT !.crashed = TRUE]
  ELSE fireLoop(S, "TX", id, maxOffsetReady(S, "TX", id),
                "processCallbacksAfterWriteData")

RECURSIVE popTxLoop(_)
popTxLoop(S) ==
  IF S.crashed \/ S.closeState # "OPEN" \/ S.txSet = {} THEN S
  ELSE popTxLoop(txStream([S EXCEPT !.txSet = @ \ {Min(S.txSet)}],
                          Min(S.txSet)))

processCallbacksAfterWriteData(S) == popTxLoop(S)

\* The while loop of handleConnWritable over pendingWriteCallbacks_.  The
\* iterator is advanced before the callback runs; a callback that erases the
\* element the iterator stands on leaves it dangling (undefined behaviour):
\* the element reads as it was or the loop ends, as chosen by S.stale.
RECURSIVE writeReadyLoop(_, _)
writeReadyNext(S, ids) ==
  IF S.crashed \/ S.closeState # "OPEN" THEN S ELSE writeReadyLoop(S, ids)

writeReadyStep(S, id, rest) ==
  IF id \notin S.streams THEN [S EXCEPT !.crashed = TRUE]
  ELSE IF ~writable(S, id)
       THEN writeReadyLoop([S EXCEPT !.pendingWriteCallbacks = Erase(@, id)],
                           rest)
  ELSE IF maxWritableOnStream(S, id) = 0 THEN writeReadyLoop(S, rest)
  ELSE writeReadyNext(
         Invoke([S EXCEPT !.pendingWriteCallbacks = Erase(@, id)],
                Ev("onStreamWriteReady", id, "-", NoOffset, NoErr,
                   "handleConnWritable"), TRUE),
         rest)

writeReadyLoop(S, ids) ==
  IF S.crashed \/ ids = {} THEN S
  ELSE IF Min(ids) \in DOMAIN S.pendingWriteCallbacks
       THEN writeReadyStep(S, Min(ids), ids \ {Min(ids)})
  ELSE IF S.stale
       THEN writeReadyStep([S EXCEPT !.ub = TRUE], Min(ids), ids \ {Min(ids)})
  ELSE [S EXCEPT !.ub = TRUE]

\* lines 1773-1777
connWriteReady(S) ==
  IF S.connWriteCallback
  THEN Invoke([S EXCEPT !.connWriteCallback = FALSE],
              Ev("onConnectionWriteReady", -1, "-", NoOffset, NoErr,
                 "handleConnWritable"), TRUE)
  ELSE S

\* lines 1781-1800
streamsWriteReady(S) == writeReadyLoop(S, DOMAIN S.pendingWriteCallbacks)

handleConnWritable(S) ==
  IF maxWritableOnConn(S) = 0 THEN S
  ELSE streamsWriteReady(connWriteReady(S))

\* lines 1721-1755: the streams whose flow-control window changed (kept
\* here with the pending events; the stream manager hands them out once)
flowControlWriteReady(S, id) ==
  IF S.crashed \/ S.closeState # "OPEN" THEN S
  ELSE IF id \notin S.streams THEN [S EXCEPT !.crashed = TRUE]
  ELSE IF maxWritableOnStream(S, id) # 0
          /\ id \in DOMAIN S.pendingWriteCallbacks
       THEN Invoke([S EXCEPT !.pendingWriteCallbacks = Erase(@, id)],
                   Ev("onStreamWriteReady", id, "-", NoOffset, NoErr,
                      "handleStreamFlowControlUpdatedCallbacks"), TRUE)
  ELSE S

flowControlStep(S, id) ==
  IF id \notin S.streams THEN [S EXCEPT !.crashed = TRUE]
  ELSE IF ~writable(S, id)
       THEN [S EXCEPT !.pendingWriteCallbacks = Erase(@, id)]
  ELSE flowControlWriteReady(
         Invoke(S, Ev("onFlowControlUpdate", id, "-", NoOffset, NoErr,
                      "handleStreamFlowControlUpdatedCallbacks"),
                S.connCallback),
         id)

RECURSIVE flowControlLoop(_, _)
flowControlLoop(S, ids) ==
  IF S.crashed \/ S.closeState # "OPEN" \/ ids = {} THEN S
  ELSE flowControlLoop(flowControlStep(S, Min(ids)), ids \ {Min(ids)})

handleStreamFlowControlUpdatedCallbacks(S) ==
  flowControlLoop([S EXCEPT !.pendingEvents.flowControlUpdated = {}],
                  S.pendingEvents.flowControlUpdated)

\* lines 1757-1766
RECURSIVE stopSendingLoop(_, _)
stopSendingLoop(S, ids) ==
  IF S.crashed \/ S.closeState # "OPEN" \/ ids = {} THEN S
  ELSE stopSendingLoop(
         Invoke(S, Ev("onStopSending", Min(ids), "-", NoOffset, NoErr,
                      "handleStreamStopSendingCallbacks"), S.connCallback),
         ids \ {Min(ids)})

handleStreamStopSendingCallbacks(S) ==
  stopSendingLoop([S EXCEPT !.pendingEvents.stopSending = {}],
                  S.pendingEvents.stopSending)

\* The handlers in the order of processCallbacksAfterNetworkData, each
\* followed by the closeState check.  No ack event for observers and no
\* stream-limit update is pending in this model, so those two handlers find
\* nothing to do.
stopDispatch(S) == S.crashed \/ S.closeState # "OPEN"

dispatchWritable(S) == IF stopDispatch(S) THEN S ELSE handleConnWritable(S)

dispatchStopSending(S) ==
  IF stopDispatch(S) THEN S
  ELSE dispatchWritable(handleStreamStopSendingCallbacks(S))

dispatchFlowControl(S) ==
  IF stopDispatch(S) THEN S
  ELSE dispatchStopSending(handleStreamFlowControlUpdatedCallbacks(S))

\* The delivery callbacks moved behind the flow-control updates
deliveryIfOpen(S) ==
  IF stopDispatch(S) THEN S ELSE handleDeliveryCallbacks(S)

dispatchDeliveryAfterFlowControl(S) ==
  IF stopDispatch(S) THEN S
  ELSE dispatchStopSending(
         deliveryIfOpen(handleStreamFlowControlUpdatedCallbacks(S)))

dispatchDelivery(S) ==
  IF stopDispatch(S) THEN S
  ELSE dispatchFlowControl(handleDeliveryCallbacks(S))

dispatchResets(S) ==
  IF stopDispatch(S) THEN S
  ELSE dispatchDelivery(handleCancelByteEventCallbacks(S))

dispatchKnobs(S) ==
  IF stopDispatch(S) THEN S ELSE dispatchResets(handleKnobCallbacks(S))

dispatchPing(S) ==
  IF stopDispatch(S) THEN S ELSE dispatchKnobs(handlePingCallbacks(S))

dispatchGroups(S) ==
  IF stopDispatch(S) THEN S
  ELSE dispatchPing(handleNewGroupedStreamCallbacks(S))

processCallbacksAfterNetworkData(S) ==
  IF stopDispatch(S) THEN S
  ELSE dispatchGroups(handleNewStreamCallbacks(
         [S EXCEPT !.passes = @ + 1]))

\* -------------------------------------------------------------- datagrams
setDatagramCallback(S, cb) ==
  IF S.closeState # "OPEN" THEN Ret(S, "CONNECTION_CLOSED")
  ELSE Ret(updateReadLooper([S EXCEPT !.datagramCallback = cb]), "OK")

\* What writeBuffer.pop_front() does to an empty deque is undefined: the
\* process aborts (a checked standard library), the deque is left as it
\* was, or its begin moves past its end, so that the element put at the
\* back next is outside of it.
PopFrontOutcomes == {"abort", "nothing removed", "size wrapped"}

\* lines 3039-3041
emplaceDatagram(S, buf) ==
  Ret(updateWriteLooper([S EXCEPT !.datagramState.writeBuffer = Append(@, buf)]),
      "OK")

\* lines 3035-3041 with sendDropOldDataFirst
dropOldestAndEmplace(S, buf, outcome) ==
  IF S.datagramState.writeBuffer # << >>
  THEN emplaceDatagram([S EXCEPT !.datagramState.writeBuffer = Tail(@)], buf)
  ELSE IF outcome = "abort" THEN [S EXCEPT !.ub = TRUE, !.crashed = TRUE]
  ELSE IF outcome = "nothing removed"
       THEN emplaceDatagram([S EXCEPT !.ub = TRUE], buf)
  ELSE Ret(updateWriteLooper([S EXCEPT !.ub = TRUE]), "OK")

\* lines 3019-3042
writeDatagram(S, buf, outcome) ==
  IF S.datagramState.maxWriteFrameSize = 0 THEN Ret(S, "INVALID_WRITE_DATA")
  ELSE IF Len(S.datagramState.writeBuffer)
            >= S.datagramState.maxWriteBufferSize
       THEN (IF ~S.settings.datagramConfig.sendDropOldDataFirst
             THEN Ret(S, "INVALID_WRITE_DATA")
             ELSE dropOldestAndEmplace(S, buf, outcome))
  ELSE emplaceDatagram(S, buf)

\* lines 3050-3054
readCount(S, atMost) ==
  IF atMost = 0 THEN Len(S.datagramState.readBuffer)
  ELSE Min({atMost, Len(S.datagramState.readBuffer)})

\* The datagrams handed out are in S.delivered.
readDatagrams(S, atMost) ==
  IF S.closeState # "OPEN" THEN Ret(S, "CONNECTION_CLOSED")
  ELSE Ret([S EXCEPT !.delivered =
                       SubSeq(S.datagramState.readBuffer, 1,
                              readCount(S, atMost)),
                     !.datagramState.readBuffer =
                       SubSeq(@, readCount(S, atMost) + 1, Len(@))],
           "OK")

\* lines 3292-3298
setDatagramLimits(S) ==
  IF S.settings.datagramConfig.enabled
  THEN [S EXCEPT !.datagramState.maxReadBufferSize =
                   S.settings.datagramConfig.readBufSize,
                 !.datagramState.maxWriteBufferSize =
                   S.settings.datagramConfig.writeBufSize]
  ELSE S

\* ------------------------------------------------------------ write path
\* writeData() of the concrete transport: everything pending is written
\* unless the socket would block; a closed connection writes its close.
writeData(S, blocked) ==
  IF S.closeState = "CLOSED" THEN writeDataOnClose(S)
  ELSE IF ~shouldWriteData(S) THEN S
  ELSE IF blocked THEN [S EXCEPT !.bufferedWrite = TRUE]
  ELSE [S EXCEPT !.bufferedWrite = FALSE, !.pendingData = {},
                 !.datagramState.writeBuffer = << >>,
                 !.pendingEvents.sendPing = FALSE,
                 !.pendingEvents.scheduleAckTimeout = FALSE,
                 !.pendingEvents.resets = {},
                 !.txOffset = [i \in StreamIds |->
                                 IF i \in S.pendingData THEN MaxOffset
                                 ELSE @[i]],
                 !.txSet = @ \cup (S.pendingData \cap StreamIds),
                 !.newOutstandingPackets = TRUE,
                 !.outstandings = IF @ < MaxOutstanding THEN @ + 1 ELSE @]

\* The idle timer set again after every pass that sent a packet
writeSocketDataIdleAlways(S, before) ==
  IF S.newOutstandingPackets
  THEN [setIdleTimer(S) EXCEPT !.receivedNewPacketBeforeWrite = FALSE]
  ELSE S

\* lines 3166-3172; newOutstandingPackets is the growth of
\* totalAckElicitingPacketsSent over the pass (lines 3133-3135), before the
\* number of outstanding packets at its start
writeSocketDataIdle(S, before) ==
  IF S.newOutstandingPackets /\ (before = 0 \/ S.receivedNewPacketBeforeWrite)
  THEN [setIdleTimer(S) EXCEPT !.receivedNewPacketBeforeWrite = FALSE]
  ELSE S

\* lines 3174-3189
writeSocketDataAppLimited(S) ==
  IF /\ S.congestionController /\ ~shouldWriteData(S)
     /\ S.transportReadyNotified /\ S.connCallback
  THEN Invoke(S, Ev("onAppRateLimited", -1, "-", NoOffset, NoErr,
                    "writeSocketData"), TRUE)
  ELSE S

\* lines 3111-3190
writeSocketDataWritten(S, before) ==
  IF S.closeState = "CLOSED" THEN S
  ELSE writeSocketDataAppLimited(
         writeSocketDataIdle(setLossDetectionAlarm(S), before))

\* lines 3195-3197
writeSocketDataEnd(S) ==
  IF S.crashed THEN S
  ELSE updateWriteLooper(schedulePathValidationTimeout(scheduleAckTimeout(S)))

writeSocketData(S, blocked) ==
  IF ~S.socket THEN writeSocketDataEnd(S)
  ELSE writeSocketDataEnd(
         writeSocketDataWritten(
           writeData([S EXCEPT !.newOutstandingPackets = FALSE], blocked),
           S.outstandings))

writeSocketDataAndCatch(S, blocked) ==
  processCallbacksAfterWriteData(writeSocketData(S, blocked))

maybeStopWriteLooperAndArmSocketWritableEvent(S) ==
  IF S.crashed \/ ~S.socket \/ S.closeState = "CLOSED" THEN S
  ELSE IF /\ S.settings.useSockWritableEvents /\ ~S.writableCb
          /\ shouldWriteData(S)
       THEN [S EXCEPT !.writableCb = TRUE, !.writeLooper = FALSE]
  ELSE S

\* The connection is not paced and scheduleTimerForExcessWrites is off.
pacedWriteDataToSocket(S, blocked) ==
  maybeStopWriteLooperAndArmSocketWritableEvent(
    writeSocketDataAndCatch(S, blocked))

onSocketWritable(S) == [S EXCEPT !.writableCb = FALSE, !.writeLooper = TRUE]

\* ----------------------------------------------------------- read, peek
RECURSIVE readLoop(_, _)
readStream(S, id) ==
  IF id \notin DOMAIN S.readCallbacks THEN S
  ELSE IF id \notin S.streams THEN [S EXCEPT !.crashed = TRUE]
  ELSE IF /\ S.readCallbacks[id].readCb /\ S.readCallbacks[id].resumed
          /\ id \in S.readable
       THEN Invoke(S, Ev("readAvailable", id, "-", NoOffset, NoErr,
                         "invokeReadDataAndCallbacks"), TRUE)
  ELSE S

readLoop(S, ids) ==
  IF S.crashed \/ ids = << >> THEN S
  ELSE readLoop(readStream(S, Head(ids)), Tail(ids))

\* std::sort of the copied stream ids
RECURSIVE insertSorted(_, _)
insertSorted(x, ids) ==
  IF ids = << >> THEN << x >>
  ELSE IF x <= Head(ids) THEN << x >> \o ids
  ELSE << Head(ids) >> \o insertSorted(x, Tail(ids))

\* The copy left as the container gave it
sortNothing(ids) == ids

RECURSIVE sortStreamIds(_)
sortStreamIds(ids) ==
  IF ids = << >> THEN << >>
  ELSE insertSorted(Head(ids), sortStreamIds(Tail(ids)))

\* lines 863-873: the readable streams copied in the iteration order of the
\* stream manager's set (S.hashOrder), sorted when orderedReadCallbacks is set
readableStreamsCopy(S) ==
  IF S.settings.orderedReadCallbacks
  THEN sortStreamIds(SelectSeq(S.hashOrder, LAMBDA i : i \in S.readable))
  ELSE SelectSeq(S.hashOrder, LAMBDA i : i \in S.readable)

\* SCOPE_EXIT of invokeReadDataAndCallbacks
invokeReadExit(S) ==
  IF S.crashed THEN S
  ELSE updateWriteLooper(updateReadLooper(checkForClosedStream(S)))

\* lines 908-910
datagramsAvailable(S) ==
  IF S.crashed THEN S
  ELSE IF S.datagramCallback /\ S.datagramState.readBuffer # << >>
       THEN Invoke(S, Ev("onDatagramsAvailable", -1, "-", NoOffset, NoErr,
                         "invokeReadDataAndCallbacks"), TRUE)
  ELSE S

invokeReadDataAndCallbacks(S) ==
  invokeReadExit(datagramsAvailable(readLoop(S, readableStreamsCopy(S))))

RECURSIVE peekLoop(_, _)
peekStream(S, id) ==
  IF id \notin DOMAIN S.peekCallbacks THEN S
  ELSE IF id \notin S.streams THEN [S EXCEPT !.crashed = TRUE]
  ELSE IF S.peekCallbacks[id].peekCb /\ id \in S.readable
       THEN Invoke(S, Ev("onDataAvailable", id, "-", NoOffset, NoErr,
                         "invokePeekDataAndCallbacks"), TRUE)
  ELSE S

peekLoop(S, ids) ==
  IF S.crashed \/ ids = {} THEN S
  ELSE peekLoop(peekStream([S EXCEPT !.peekable = @ \ {Min(ids)}], Min(ids)),
                ids \ {Min(ids)})

\* SCOPE_EXIT of invokePeekDataAndCallbacks
invokePeekExit(S) ==
  IF S.crashed THEN S
  ELSE updateWriteLooper(updatePeekLooper(checkForClosedStream(S)))

invokePeekDataAndCallbacks(S) == invokePeekExit(peekLoop(S, S.peekable))

\* --------------------------------------------------------- network intake
Pkt(k, i) == [kind |-> k, id |-> i]

\* Packets that carry ack-eliciting frames change the ack state version.
ackStateChanged(pkt) ==
  pkt.kind \in {"data", "fin", "streamClosed", "ping", "pathChallenge", "knobs",
                "groups", "newStream", "datagram"}

\* What the frames of a packet leave in conn_; a packet "ack" acknowledges
\* everything that was sent, a packet "ackTo" the stream data up to the
\* offset it names, a packet "fin" the last data of a stream whose other
\* half is closed already: the stream is closed and its end is still to
\* be read.
applyFrames(S, pkt) ==
  CASE pkt.kind = "ack" ->
         [S EXCEPT !.outstandings = 0,
                   !.ackedOffset = [i \in StreamIds |-> S.txOffset[i]],
                   !.deliverable =
                      @ \cup {i \in S.streams :
                                S.txOffset[i] > S.ackedOffset[i]}]
    [] pkt.kind = "ackTo" ->
         [S EXCEPT !.ackedOffset =
                      [i \in StreamIds |->
                         IF S.txOffset[i] >= pkt.id /\ @[i] < pkt.id
                         THEN pkt.id ELSE @[i]],
                   !.deliverable =
                      @ \cup {i \in S.streams :
                                S.txOffset[i] >= pkt.id
                                  /\ S.ackedOffset[i] < pkt.id}]
    [] pkt.kind = "data" ->
         IF /\ pkt.id \in S.streams /\ ~isSendingStream(pkt.id)
            /\ pkt.id \notin S.closedStreams
         THEN [S EXCEPT !.readable = @ \cup {pkt.id},
                        !.peekable = @ \cup {pkt.id}]
         ELSE S
    [] pkt.kind = "newStream" ->
         IF pkt.id \notin S.created
         THEN [S EXCEPT !.streams = @ \cup {pkt.id},
                        !.created = @ \cup {pkt.id},
                        !.newPeerStreams = Append(@, pkt.id)]
         ELSE S
    [] pkt.kind = "fin" ->
         IF /\ pkt.id \in S.streams /\ ~isSendingStream(pkt.id)
            /\ pkt.id \notin S.closedStreams
         THEN [S EXCEPT !.readable = @ \cup {pkt.id},
                        !.peekable = @ \cup {pkt.id},
                        !.closedStreams = @ \cup {pkt.id}]
         ELSE S
    [] pkt.kind = "streamClosed" ->
         IF pkt.id \in S.streams
         THEN [S EXCEPT !.closedStreams = @ \cup {pkt.id},
                        !.readable = @ \ {pkt.id},
                        !.peekable = @ \ {pkt.id}]
         ELSE S
    [] pkt.kind = "ping" ->
         [S EXCEPT !.pendingEvents.notifyPingReceived = TRUE]
    [] pkt.kind = "pingAck" ->
         [S EXCEPT !.pendingEvents.cancelPingTimeout = TRUE]
    [] pkt.kind = "pathChallenge" ->
         [S EXCEPT !.pendingEvents.schedulePathValidationTimeout = TRUE,
                   !.outstandingPathValidation = TRUE]
    [] pkt.kind = "knobs" ->
         [S EXCEPT !.pendingEvents.knobs = << "app", "app" >>]
    [] pkt.kind = "maxStreamData" ->
         IF pkt.id \in S.streams
         THEN [S EXCEPT !.pendingEvents.flowControlUpdated = @ \cup {pkt.id}]
         ELSE S
    [] pkt.kind = "stopSending" ->
         IF pkt.id \in S.streams /\ writable(S, pkt.id)
         THEN [S EXCEPT !.pendingEvents.stopSending = @ \cup {pkt.id}]
         ELSE S
    [] pkt.kind = "ecnEcho" ->
         [S EXCEPT !.ecn.ecnCECountEchoed = @ + pkt.ce,
                   !.ecn.ecnECT0CountEchoed = @ + pkt.ect0,
                   !.ecn.ecnECT1CountEchoed = @ + pkt.ect1,
                   !.ecn.minimumExpectedEcnMarksEchoed = @ + pkt.expected]
    [] pkt.kind = "groups" ->
         [S EXCEPT !.newPeerStreamGroups = << 4, 8 >>]
    [] pkt.kind = "datagram" ->
         IF Len(S.datagramState.readBuffer) < S.datagramState.maxReadBufferSize
         THEN [S EXCEPT !.datagramState.readBuffer = Append(@, pkt.id)]
         ELSE S
    [] pkt.kind = "transportParameters" ->
         [S EXCEPT !.datagramState.maxWriteFrameSize = pkt.id]
    [] pkt.kind = "peerClose" ->
         [S EXCEPT !.peerConnectionError =
            QuicError("Transport", "PEER_GOING_AWAY", "peer")]
    [] OTHER -> S

\* onReadData() of the concrete transport; a closed connection drops the
\* packet
onReadData(S, pkt) ==
  IF S.closeState = "CLOSED" THEN [S EXCEPT !.pktsRead = @ + 1]
  ELSE applyFrames(
         [S EXCEPT !.pktsRead = @ + 1,
                   !.ackVersionChanged = @ \/ ackStateChanged(pkt),
                   !.pendingEvents.scheduleAckTimeout =
                      @ \/ ackStateChanged(pkt)],
         pkt)

\* closeImpl(error): drainConnection and sendCloseImmediately default to true
closeImplDefault(S, errorCode) == closeImpl(S, errorCode, TRUE, TRUE)

\* lines 1947-1949
onNetworkDataIdle(S) ==
  IF S.ackVersionChanged
  THEN [setIdleTimer(S) EXCEPT !.receivedNewPacketBeforeWrite = TRUE]
  ELSE S

\* -------------------------------------------------------------- ECN
\* The marks counted so far are within what was expected and what was sent
\* (lines 3944-3945, 3966-3967)
marksAboveMinimum(S, markedPacketCount) ==
  markedPacketCount >= S.ecn.minimumExpectedEcnMarksEchoed

marksInRange(S, markedPacketCount) ==
  /\ markedPacketCount >= S.ecn.minimumExpectedEcnMarksEchoed
  /\ markedPacketCount <= S.ecn.totalPacketsSent

\* addPacketProcessor, without the test for a tracker
installAnotherTracker(S) ==
  [S EXCEPT !.ecn.ecnL4sTracker = TRUE, !.ecn.packetProcessors = @ + 1]

\* lines 3973-3976
installTracker(S) ==
  IF ~S.ecn.ecnL4sTracker
  THEN [S EXCEPT !.ecn.ecnL4sTracker = TRUE, !.ecn.packetProcessors = @ + 1]
  ELSE S

\* lines 3938-3962
validateClassic(S) ==
  IF /\ marksInRange(S, S.ecn.ecnCECountEchoed + S.ecn.ecnECT0CountEchoed)
     /\ S.ecn.ecnECT1CountEchoed = 0
  THEN [S EXCEPT !.ecn.ecnState = "ValidatedECN"]
  ELSE [S EXCEPT !.ecn.ecnState = "FailedValidation"]

\* lines 3963-3990
validateL4s(S) ==
  IF /\ marksInRange(S, S.ecn.ecnCECountEchoed + S.ecn.ecnECT1CountEchoed)
     /\ S.ecn.ecnECT0CountEchoed = 0
  THEN (IF S.ecn.ecnState # "ValidatedL4S"
        THEN [installTracker(S) EXCEPT !.ecn.ecnState = "ValidatedL4S"]
        ELSE S)
  ELSE [S EXCEPT !.ecn.ecnState = "FailedValidation"]

\* socket_->setTosOrTrafficClass(conn_->socketTos.value)
setTosOrTrafficClass(S) == [S EXCEPT !.ecn.socketTosSet = S.ecn.socketTos]

\* lines 3993-4006; CHECK(socket_ && socket_->isBound()) aborts without socket
disableEcn(S) ==
  IF S.ecn.ecnState # "FailedValidation" THEN S
  ELSE IF ~S.socket THEN [S EXCEPT !.ecn.socketTos = "NotECT", !.crashed = TRUE]
  ELSE [setTosOrTrafficClass([S EXCEPT !.ecn.socketTos = "NotECT"])
          EXCEPT !.ecn.packetProcessors =
                    IF S.ecn.ecnL4sTracker THEN 0 ELSE @,
                 !.ecn.ecnL4sTracker = FALSE]

validateECNState(S) ==
  IF S.crashed THEN S
  ELSE IF S.ecn.ecnState \in {"NotAttempted", "FailedValidation"} THEN S
  ELSE IF S.ecn.minimumExpectedEcnMarksEchoed < MinEcnMarks THEN S
  ELSE IF S.ecn.ecnState \in {"AttemptingECN", "ValidatedECN"}
       THEN disableEcn(validateClassic(S))
  ELSE disableEcn(validateL4s(S))

\* lines 3336-3356 (the DSCP value is left out: the TOS value changes when
\* its ECN bits do)
ecnBitsFor(S) ==
  IF ~S.settings.enableEcnOnEgress THEN "NotECT"
  ELSE IF S.settings.useL4sEcn THEN "ECT1" ELSE "ECT0"

ecnStateFor(S) ==
  IF ~S.settings.enableEcnOnEgress THEN "NotAttempted"
  ELSE IF S.settings.useL4sEcn THEN "AttemptingL4S" ELSE "AttemptingECN"

updateSocketTosSettings(S) ==
  IF S.socket /\ ecnBitsFor(S) # S.ecn.socketTos
  THEN setTosOrTrafficClass(
         [S EXCEPT !.ecn.socketTos = ecnBitsFor(S),
                   !.ecn.ecnState = ecnStateFor(S)])
  ELSE [S EXCEPT !.ecn.socketTos = ecnBitsFor(S),
                 !.ecn.ecnState = ecnStateFor(S)]

\* lines 659-666, in unsigned arithmetic
bufferSpaceWrapping(S) ==
  (S.settings.totalBufferSpaceAvailable
     - S.flowControlState.sumCurStreamBufferLen) % UintModulus

bufferSpaceAvailable(S) ==
  IF S.flowControlState.sumCurStreamBufferLen
       > S.settings.totalBufferSpaceAvailable
  THEN 0
  ELSE (S.settings.totalBufferSpaceAvailable
          - S.flowControlState.sumCurStreamBufferLen) % UintModulus

\* lines 655-657
getConnectionBufferAvailable(S) ==
  Ret([S EXCEPT !.bufferAvailable = bufferSpaceAvailable(S)], "OK")

\* lines 1946-1977
onNetworkDataEnd(S) ==
  IF S.crashed THEN S
  ELSE IF S.closeState # "CLOSED"
       THEN validateECNState(schedulePathValidationTimeout(
              scheduleAckTimeout(setLossDetectionAlarm(onNetworkDataIdle(S)))))
  ELSE writeSocketData(S, FALSE)

\* lines 1943-1945
onNetworkDataDispatch(S, processedCallbacks) ==
  IF processedCallbacks THEN onNetworkDataEnd(S)
  ELSE onNetworkDataEnd(processCallbacksAfterNetworkData(S))

\* The text of the exception a collaborator throws
ExceptionText == "what()"

\* The catch clauses (lines 1978-1999): a Quic exception is closed on with
\* its own code and text, any other exception with INTERNAL_ERROR and a
\* text of the transport.
onNetworkDataCatch(S, kind) ==
  closeImplDefault(
    [S EXCEPT !.exceptionCloseWhat = ExceptionText, !.pktsRead = @ + 1],
    IF kind = "throw"
    THEN QuicError("Transport", "PROTOCOL_VIOLATION", ExceptionText)
    ELSE QuicError("Transport", "INTERNAL_ERROR", "error onNetworkData()"))

\* The loop that goes on to the next packet after the peer's close.
RECURSIVE packetLoop(_, _, _)
packetReadKeepsReading(S, rest, processedCallbacks) ==
  IF S.peerConnectionError # NoErr
  THEN packetLoop(
         closeImplDefault(S, QuicError("Transport", "NO_ERROR", "Peer closed")),
         rest, processedCallbacks)
  ELSE packetLoop(S, rest, processedCallbacks)

\* The loop over the packets of the batch (lines 1929-1940); a packet of
\* kind "throw" makes onReadData throw.
packetRead(S, rest, processedCallbacks) ==
  IF S.peerConnectionError # NoErr
  THEN closeImplDefault(S, QuicError("Transport", "NO_ERROR", "Peer closed"))
  ELSE IF S.settings.processCallbacksPerPacket
       THEN packetLoop(
              invokeReadDataAndCallbacks(processCallbacksAfterNetworkData(S)),
              rest, TRUE)
  ELSE packetLoop(S, rest, processedCallbacks)

packetLoop(S, pkts, processedCallbacks) ==
  IF S.crashed THEN S
  ELSE IF pkts = << >> THEN onNetworkDataDispatch(S, processedCallbacks)
  ELSE IF Head(pkts).kind \in {"throw", "throwStd"}
       THEN onNetworkDataCatch(S, Head(pkts).kind)
  ELSE packetRead(onReadData(S, Head(pkts)), Tail(pkts), processedCallbacks)

\* SCOPE_EXIT of onNetworkData
onNetworkDataExit(S) ==
  IF S.crashed THEN S
  ELSE updateWriteLooper(updatePeekLooper(updateReadLooper(
         checkForClosedStream(S))))

onNetworkData(S, pkts) == onNetworkDataExit(packetLoop(S, pkts, FALSE))

\* ----------------------------------------------------------- event base
detachEventBase(S) ==
  [S EXCEPT !.connWriteCallback = FALSE, !.pendingWriteCallbacks = EmptyMap,
            !.timers = @ \ {"loss", "ack", "pathValidation", "idle",
                            "keepalive", "drain"},
            !.readLooper = FALSE, !.peekLooper = FALSE, !.writeLooper = FALSE,
            !.evb = 0]

attachEventBase(S, evbIn) ==
  updateWriteLooper(updatePeekLooper(updateReadLooper(
    setIdleTimer(schedulePathValidationTimeout(scheduleAckTimeout(
      [S EXCEPT !.evb = evbIn]))))))

\* --------------------------------------------------------- timer expiry
\* The idle expiry that sends the close at once although it drains
idleTimeoutExpiredSendsClose(S, drain) ==
  closeImpl(S, QuicError("Local", "IDLE_TIMEOUT", "num non control streams"),
            drain, drain)

idleTimeoutExpired(S, drain) ==
  closeImpl(S,
            QuicError("Local",
                      IF drain THEN "IDLE_TIMEOUT" ELSE "SHUTTING_DOWN",
                      "num non control streams"),
            drain, ~drain)

\* The expiry that closes like any other close, with the drain period
pathValidationTimeoutDrains(S) ==
  closeImplDefault(
    [S EXCEPT !.pendingEvents.schedulePathValidationTimeout = FALSE,
              !.outstandingPathValidation = FALSE],
    QuicError("Transport", "NO_ERROR", "Path validation timed out"))

\* CHECK(conn_->outstandingPathValidation) aborts without one
pathValidationTimeoutExpired(S) ==
  IF ~S.outstandingPathValidation THEN [S EXCEPT !.crashed = TRUE]
  ELSE closeImplDefault(
         [S EXCEPT !.pendingEvents.schedulePathValidationTimeout = FALSE,
                   !.outstandingPathValidation = FALSE],
         QuicError("Transport", "INVALID_MIGRATION",
                   "Path validation timed out"))

\* CHECK_NE(closeState_, CloseState::CLOSED) aborts on a closed connection
lossTimeoutExpired(S, blocked) ==
  IF S.closeState = "CLOSED" THEN [S EXCEPT !.crashed = TRUE]
  ELSE pacedWriteDataToSocket(S, blocked)

ackTimeoutExpired(S, blocked) ==
  IF S.closeState = "CLOSED" THEN [S EXCEPT !.crashed = TRUE]
  ELSE pacedWriteDataToSocket(S, blocked)

keepaliveTimeoutExpired(S) ==
  updateWriteLooper([S EXCEPT !.pendingEvents.sendPing = TRUE])

pingTimeoutExpired(S) ==
  IF S.pingCallback
  THEN Invoke(S, Ev("pingTimeout", -1, "-", NoOffset, NoErr,
                    "pingTimeoutExpired"), TRUE)
  ELSE S

\* ------------------------------------------------------------ turn inputs
NoReact == [trig |-> 0, react |-> "none", rid |-> 0, stale |-> FALSE]

\* The argument that goes with a re-entrant call
ReactArgs(r) ==
  IF r = "unregisterWrite" THEN {1}
  ELSE IF r \in {"setReadOf", "unsetReadOf"} THEN {1, 2}
  ELSE IF r = "registerSame" THEN 0..MaxOffset
  ELSE {0}

ReactInputs ==
  {NoReact}
  \cup {in \in [trig : 1..MaxTrigger, react : env.reacts,
                rid : 0..3, stale : BOOLEAN] :
          /\ in.rid \in ReactArgs(in.react)
          /\ in.stale => in.react \notin {"close", "closeNow", "closeGracefully",
                                          "readSame", "setReadOf",
                                          "unsetReadOf"}}

NoRef == [set |-> FALSE, log |-> << >>, timers |-> {}, socket |-> FALSE,
          bound |-> FALSE, closeState |-> "OPEN"]

RefOf(S) == [set |-> TRUE, log |-> S.log, timers |-> S.timers,
             socket |-> S.socket, bound |-> S.bound,
             closeState |-> S.closeState]

Flag(b) == IF b THEN "true" ELSE "false"

Op(n, i, t, o, a) == [name |-> n, id |-> i, type |-> t, offset |-> o, arg |-> a]

\* No handler is running: the event loop waits for the next event.
EventLoop == Op("eventLoop", -1, "-", NoOffset, << >>)

NoReaction == [kind |-> "none", at |-> 0, rid |-> 0, stale |-> FALSE]

\* The bounds on registrations and deferred closures.
Within(S) == Len(S.asyncQ) <= MaxAsync /\ S.nRegs <= MaxRegs

\* The program state of a record, without the observations of the turn and
\* without the counters that only bound the model.
Core(S) ==
  [S EXCEPT !.log = << >>, !.csLog = << >>, !.trig = 0, !.react = "none",
            !.rid = 0, !.stale = FALSE, !.fired = FALSE, !.ret = "-",
            !.reaped = << >>, !.delivered = << >>, !.pktsRead = 0,
            !.passes = 0, !.ackVersionChanged = FALSE,
            !.closeImplExit = NoExit, !.ub = FALSE,
            !.bufferAvailable = NoBufferAvailable, !.idleSet = FALSE,
            !.newOutstandingPackets = FALSE, !.closeNowExit = << >>]

\* A handler that changed nothing and called nothing is not a step.
Changed(S) == S.log # << >> \/ Core(S) # Core(Cur)

\* The record without the inputs of the turn.
Quiet(S) ==
  [S EXCEPT !.trig = 0, !.react = "none", !.rid = 0, !.stale = FALSE,
            !.fired = FALSE]

\* What the turn costs of the environment's budget: a timer or looper turn
\* nothing, network data one event, an application call one event unless the
\* transport refused it.
Cost(S, kind) ==
  IF env.mode \in {"ecn", "buffer", "datagrams", "writes", "pause"} THEN 0
  ELSE IF kind = "event" \/ (kind = "call" /\ S.ret \in {"OK", "-"}) THEN 1
  ELSE 0

\* Put the record S back into the variables.  S0 is the same handler run
\* without the re-entrant call.  A process that aborted keeps no transport
\* state: only what was observed up to the abort is recorded.
InstallObservations(S, S0, op, kind) ==
  /\ lastOp' = op
  /\ crashed' = S.crashed
  /\ ub' = S.ub
  /\ log' = S.log
  /\ csLog' = S.csLog
  /\ ret' = S.ret
  /\ netObs' = [pktsRead |-> S.pktsRead, passes |-> S.passes,
                idleSet |-> S.idleSet,
                newOutstandingPackets |-> S.newOutstandingPackets,
                closeNowExit |-> S.closeNowExit]
  /\ reaped' = S.reaped
  /\ delivered' = S.delivered
  /\ closeImplExit' = S.closeImplExit
  /\ drainArms' = S.drainArms
  /\ bufferAvailable' = S.bufferAvailable
  /\ notes' = S.notes
  /\ nRegs' = S.nRegs
  /\ lastFired' = S.lastFired
  /\ env' = [env EXCEPT !.events = @ - Cost(S, kind)]
  /\ started' = TRUE
  /\ react' = IF S.fired
              THEN [kind |-> S.react, at |-> S.trig, rid |-> S.rid,
                    stale |-> S.stale]
              ELSE NoReaction
  /\ ref' = IF ~S.crashed /\ S.fired /\ S.react = "close"
               /\ S.log[S.trig].cs = "CLOSED"
            THEN RefOf(S0) ELSE NoRef

InstallConnection(S) ==
  /\ closeState' = S.closeState /\ timers' = S.timers
  /\ readLooper' = S.readLooper /\ peekLooper' = S.peekLooper
  /\ writeLooper' = S.writeLooper /\ socket' = S.socket
  /\ bound' = S.bound /\ writableCb' = S.writableCb /\ evb' = S.evb
  /\ connCallback' = S.connCallback
  /\ connSetupCallback' = S.connSetupCallback
  /\ transportReadyNotified' = S.transportReadyNotified
  /\ localConnectionError' = S.localConnectionError
  /\ peerConnectionError' = S.peerConnectionError
  /\ exceptionCloseWhat' = S.exceptionCloseWhat
  /\ pendingEvents' = S.pendingEvents /\ outstandings' = S.outstandings
  /\ ecn' = S.ecn /\ flowControlState' = S.flowControlState
  /\ outstandingPathValidation' = S.outstandingPathValidation
  /\ datagramState' = S.datagramState
  /\ transportParametersEncoded' = S.transportParametersEncoded
  /\ congestionController' = S.congestionController
  /\ bufferedWrite' = S.bufferedWrite /\ closeSent' = S.closeSent
  /\ asyncQ' = S.asyncQ /\ settings' = S.settings
  /\ pendingData' = S.pendingData
  /\ receivedNewPacketBeforeWrite' = S.receivedNewPacketBeforeWrite

InstallStreams(S) ==
  /\ streams' = S.streams /\ closedStreams' = S.closedStreams
  /\ resetSent' = S.resetSent
  /\ readable' = S.readable /\ peekable' = S.peekable
  /\ newPeerStreams' = S.newPeerStreams
  /\ newPeerStreamGroups' = S.newPeerStreamGroups
  /\ created' = S.created
  /\ readCallbacks' = S.readCallbacks /\ peekCallbacks' = S.peekCallbacks
  /\ byteEvents' = S.byteEvents /\ deliverable' = S.deliverable
  /\ txSet' = S.txSet /\ ackedOffset' = S.ackedOffset
  /\ txOffset' = S.txOffset
  /\ pendingWriteCallbacks' = S.pendingWriteCallbacks
  /\ connWriteCallback' = S.connWriteCallback
  /\ pingCallback' = S.pingCallback
  /\ datagramCallback' = S.datagramCallback

Install(S, S0, op, kind) ==
  /\ InstallObservations(S, S0, op, kind)
  /\ IF S.crashed
     THEN UNCHANGED << closeState, timers, readLooper, peekLooper,
            writeLooper, socket, bound, writableCb, evb, connCallback,
            connSetupCallback, transportReadyNotified, localConnectionError,
            peerConnectionError, exceptionCloseWhat, streams, closedStreams,
            resetSent, readable, peekable, newPeerStreams,
            newPeerStreamGroups, created, pendingData,
            receivedNewPacketBeforeWrite, readCallbacks, peekCallbacks,
            byteEvents, deliverable, txSet, ackedOffset, txOffset,
            pendingWriteCallbacks, connWriteCallback, pingCallback,
            datagramCallback, pendingEvents, ecn, flowControlState,
           outstandingPathValidation, datagramState,
           transportParametersEncoded, outstandings,
            congestionController, bufferedWrite, closeSent, asyncQ,
            settings >>
     ELSE InstallConnection(S) /\ InstallStreams(S)

\* One input of the turn: the handler with the re-entrant call in.  An
\* input whose callback never ran, or whose call changed nothing, is the
\* turn without re-entrant call (a nested close() is kept in any case).
RunIn(S, base, in, op, kind) ==
  /\ in = NoReact \/ S.fired
  /\ in.react \in {"none", "close"} \/ Quiet(S) # Quiet(base)
  /\ in.stale => S.ub
  /\ Within(S)
  /\ env.events >= Cost(S, kind)
  /\ Install(S, base, op, kind)

\* A handler or a call without result that changed nothing and called
\* nothing is not a step.
RunBase(R(_), base, op, kind) ==
  /\ kind = "setUp" \/ base.ret # "-" \/ Changed(base)
  /\ \E in \in ReactInputs :
       /\ in.trig <= Len(base.log)
       /\ RunIn(R(Begin(in)), base, in, op, kind)

\* One handler run to completion on the event-base thread.
Run(R(_), op, kind, first) ==
  /\ ~crashed /\ evb # 0 /\ lastOp = EventLoop /\ started = ~first
  /\ RunBase(R, R(Begin(NoReact)), op, kind)

\* A timer, looper or deferred callback
Turn(R(_), op) == Run(R, op, "quiet", FALSE)

\* An application call from outside any callback
ApiTurn(R(_), op) == Run(R, op, "call", FALSE)

\* Something the network does
NetTurn(R(_), op) == Run(R, op, "event", FALSE)

\* lines 3226-3301: once the transport parameters are encoded the new
\* settings are not taken over (the congestion control settings, which are,
\* are not part of the record).
setTransportSettings(S, transportSettings) ==
  updateSocketTosSettings(
    setDatagramLimits(
      [S EXCEPT !.settings = IF S.transportParametersEncoded THEN @
                             ELSE transportSettings]))

\* One application call of a start-up script.
Call(S, c) ==
  CASE c.name = "createStream" -> createStreamInternal(S, c.id = 1)
    [] c.name = "setReadCallback" -> setReadCallback(S, c.id, TRUE, FALSE)
    [] c.name = "setPeekCallback" -> setPeekCallback(S, c.id, TRUE)
    [] c.name = "registerByteEventCallback" ->
         registerByteEventCallback(S, c.type, c.id, c.offset, 1)
    [] c.name = "notifyPendingWriteOnConnection" ->
         notifyPendingWriteOnConnection(S, TRUE)
    [] c.name = "notifyPendingWriteOnStream" ->
         notifyPendingWriteOnStream(S, c.id, TRUE)
    [] c.name = "setPingCallback" -> setPingCallback(S, TRUE)
    [] c.name = "sendPing" -> sendPing(S, 1)
    [] c.name = "writeChain" -> writeChain(S, c.id)
    [] c.name = "setTransportSettings" -> setTransportSettings(S, S.settings)
    [] OTHER -> S

RECURSIVE RunScript(_, _)
RunScript(S, script) ==
  IF script = << >> \/ S.crashed THEN S
  ELSE RunScript(Call(S, Head(script)), Tail(script))

ApiCall(o, i) == Op(o, i, "ACK", 0, << >>)

Register(t, i, off) == Op("registerByteEventCallback", i, t, off, << >>)

\* What the application does with the new transport before it returns to
\* the event loop: a ping, a stream it reads, a stream it writes and
\* watches for acknowledgement, a stream it watches for transmission.
LifeScripts ==
  { << ApiCall("setPingCallback", 0), ApiCall("sendPing", 0) >>,
    << ApiCall("createStream", 1), ApiCall("setReadCallback", 1),
       ApiCall("setPeekCallback", 1) >>,
    << ApiCall("createStream", 1), Register("ACK", 1, 0),
       Register("ACK", 1, 1), ApiCall("writeChain", 1),
       ApiCall("notifyPendingWriteOnStream", 1) >>,
    << ApiCall("createStream", 3), Register("TX", 3, 0),
       Register("TX", 3, 1),
       ApiCall("notifyPendingWriteOnConnection", 0) >> }

\* A stream it reads and peeks, two streams of which it writes one, or a
\* stream it writes and watches for acknowledgement.
StreamScripts ==
  { << ApiCall("createStream", 1), ApiCall("setReadCallback", 1) >>,
    << ApiCall("createStream", 1), ApiCall("createStream", 3),
       ApiCall("writeChain", 1) >>,
    << ApiCall("createStream", 1), ApiCall("writeChain", 1),
       Register("ACK", 1, 0), Register("ACK", 1, 1) >> }

\* A stream it reads
ReadScripts == { << ApiCall("createStream", 1), ApiCall("setReadCallback", 1) >> }

\* A stream whose write callback waits, with or without the connection's
WriteScripts ==
  { << ApiCall("createStream", 1), ApiCall("notifyPendingWriteOnStream", 1) >>,
    << ApiCall("createStream", 1), ApiCall("notifyPendingWriteOnStream", 1),
       ApiCall("notifyPendingWriteOnConnection", 0) >> }

\* A stream it reads and peeks
PauseScripts ==
  { << ApiCall("createStream", 1), ApiCall("setReadCallback", 1),
       ApiCall("setPeekCallback", 1) >> }

\* The settings given to the transport
SettingsScripts == { << ApiCall("setTransportSettings", 0) >> }

Scripts ==
  IF env.mode = "life" THEN LifeScripts
  ELSE IF env.mode = "reads" THEN ReadScripts
  ELSE IF env.mode \in {"ecn", "buffer", "datagrams"} THEN SettingsScripts
  ELSE IF env.mode = "writes" THEN WriteScripts
  ELSE IF env.mode = "pause" THEN PauseScripts
  ELSE StreamScripts

\* ---------------------------------------------------------------- actions
\* The application's start-up code: the first turn on the transport.
\* datagramConfig of the default settings: datagrams are not enabled
NoDatagramConfig ==
  [ enabled |-> FALSE, writeBufSize |-> MaxDatagramsBuffered,
    readBufSize |-> MaxDatagramsBuffered, sendDropOldDataFirst |-> FALSE ]

DefaultSettings ==
  [ shouldDrain |-> TRUE, useConnectionEndWithErrorCallback |-> FALSE,
    useSockWritableEvents |-> TRUE,
    removeStreamAfterEomCallbackUnset |-> FALSE,
    advertisedKnobFrameSupport |-> TRUE, idleTimeoutEnabled |-> TRUE,
    enableKeepalive |-> TRUE, processCallbacksPerPacket |-> FALSE,
    orderedReadCallbacks |-> FALSE, enableEcnOnEgress |-> FALSE,
    useL4sEcn |-> FALSE, totalBufferSpaceAvailable |-> UintModulus - 1,
    datagramConfig |-> NoDatagramConfig ]

\* The settings the application starts the transport with
LifeSettings ==
  { DefaultSettings,
    [DefaultSettings EXCEPT !.shouldDrain = FALSE],
    [DefaultSettings EXCEPT !.useConnectionEndWithErrorCallback = TRUE],
    [DefaultSettings EXCEPT !.processCallbacksPerPacket = TRUE] }

StreamSettings ==
  [ shouldDrain : {TRUE}, useConnectionEndWithErrorCallback : {FALSE},
    useSockWritableEvents : {FALSE},
    removeStreamAfterEomCallbackUnset : BOOLEAN,
    advertisedKnobFrameSupport : {TRUE}, idleTimeoutEnabled : {FALSE},
    enableKeepalive : {FALSE}, processCallbacksPerPacket : {FALSE},
    orderedReadCallbacks : {FALSE}, enableEcnOnEgress : {FALSE},
    useL4sEcn : {FALSE}, totalBufferSpaceAvailable : {UintModulus - 1},
    datagramConfig : {NoDatagramConfig} ]

ReadSettings ==
  [ shouldDrain : {TRUE}, useConnectionEndWithErrorCallback : {FALSE},
    useSockWritableEvents : {FALSE},
    removeStreamAfterEomCallbackUnset : {FALSE},
    advertisedKnobFrameSupport : {TRUE}, idleTimeoutEnabled : {FALSE},
    enableKeepalive : {FALSE}, processCallbacksPerPacket : {FALSE},
    orderedReadCallbacks : BOOLEAN, enableEcnOnEgress : {FALSE},
    useL4sEcn : {FALSE}, totalBufferSpaceAvailable : {UintModulus - 1},
    datagramConfig : {NoDatagramConfig} ]

\* The default settings without timers
PlainSettings ==
  [DefaultSettings EXCEPT !.idleTimeoutEnabled = FALSE,
                          !.enableKeepalive = FALSE,
                          !.useSockWritableEvents = FALSE]

\* The settings of a transport that marks its packets, for classic ECN or
\* for L4S, or does not
EcnSettings ==
  { [DefaultSettings EXCEPT !.idleTimeoutEnabled = FALSE,
                            !.enableKeepalive = FALSE,
                            !.enableEcnOnEgress = e, !.useL4sEcn = l] :
      e \in BOOLEAN, l \in BOOLEAN }

\* datagramConfig with datagrams enabled, every size of the write buffer
DatagramConfigs ==
  [ enabled : {TRUE}, writeBufSize : 0..MaxDatagramsBuffered,
    readBufSize : {MaxDatagramsBuffered}, sendDropOldDataFirst : BOOLEAN ]

\* The settings of a transport that sends and receives datagrams
DatagramSettings ==
  { [DefaultSettings EXCEPT !.idleTimeoutEnabled = FALSE,
                            !.enableKeepalive = FALSE,
                            !.useSockWritableEvents = FALSE,
                            !.datagramConfig = c] : c \in DatagramConfigs }

\* The settings with every size of the connection's send buffer
BufferSettings ==
  { [DefaultSettings EXCEPT !.idleTimeoutEnabled = FALSE,
                            !.enableKeepalive = FALSE,
                            !.totalBufferSpaceAvailable = t] :
      t \in 0..(UintModulus - 1) }

AppSetUp ==
  /\ ~started
  /\ \E script \in Scripts :
       /\ \/ settings = DefaultSettings /\ transportReadyNotified
          \/ env.mode # "life"
          \/ Len(script) <= MaxPlainScript
       /\ settings.processCallbacksPerPacket => Len(script) < MaxPlainScript
       /\ Run(LAMBDA S : RunScript(S, script),
              Op("setUp", -1, "-", NoOffset, << >>), "setUp", TRUE)

CloseErrors ==
  {NoErr, QuicError("Local", "CONNECTION_RESET", "reset"),
   QuicError("Local", "CONNECTION_ABANDONED", "abandoned")}

AppClose ==
  /\ started
  /\ \E e \in CloseErrors :
       Turn(LAMBDA S : close(S, e), Op("close", -1, "-", NoOffset, << e.code >>))

AppCloseNow ==
  /\ started
  /\ Turn(LAMBDA S : closeNow(S, NoErr), Op("closeNow", -1, "-", NoOffset, << >>))

AppCloseGracefully ==
  /\ started
  /\ Turn(LAMBDA S : closeGracefully(S),
          Op("closeGracefully", -1, "-", NoOffset, << >>))

SetReadCallback ==
  /\ started
  /\ \E id \in StreamIds, cb \in BOOLEAN :
       ApiTurn(LAMBDA S : setReadCallback(S, id, cb, ~cb),
               Op("setReadCallback", id, "-", NoOffset, << Flag(cb) >>))

SetPeekCallback ==
  /\ started
  /\ \E id \in StreamIds, cb \in BOOLEAN :
       ApiTurn(LAMBDA S : setPeekCallback(S, id, cb),
               Op("setPeekCallback", id, "-", NoOffset, << Flag(cb) >>))

PauseOrResumeRead ==
  /\ started
  /\ \E id \in StreamIds, resume \in BOOLEAN :
       ApiTurn(LAMBDA S : pauseOrResumeRead(S, id, resume),
               Op("pauseOrResumeRead", id, "-", NoOffset, << Flag(resume) >>))

PauseOrResumePeek ==
  /\ started
  /\ \E id \in StreamIds, resume \in BOOLEAN :
       ApiTurn(LAMBDA S : pauseOrResumePeek(S, id, resume),
               Op("pauseOrResumePeek", id, "-", NoOffset, << Flag(resume) >>))

\* The error the application resets its streams with
ResetError == QuicError("Application", "0", "reset")

ResetNonControlStreams ==
  /\ started
  /\ Turn(LAMBDA S : resetNonControlStreams(S, ResetError),
          Op("resetNonControlStreams", -1, "-", NoOffset, << >>))

Read ==
  /\ started
  /\ \E id \in StreamIds :
       ApiTurn(LAMBDA S : read(S, id), Op("read", id, "-", NoOffset, << >>))

Peek ==
  /\ started
  /\ \E id \in StreamIds :
       ApiTurn(LAMBDA S : peek(S, id), Op("peek", id, "-", NoOffset, << >>))

Consume ==
  /\ started
  /\ \E id \in StreamIds :
       ApiTurn(LAMBDA S : consume(S, id), Op("consume", id, "-", NoOffset, << >>))

StopSending ==
  /\ started
  /\ \E id \in StreamIds :
       ApiTurn(LAMBDA S : stopSending(S, id),
               Op("stopSending", id, "-", NoOffset, << >>))

ResetStream ==
  /\ started
  /\ \E id \in StreamIds :
       ApiTurn(LAMBDA S : resetStream(S, id),
               Op("resetStream", id, "-", NoOffset, << >>))

\* The application of the first specification writes only to the stream
\* the peer opened for its own data.
WriteChain ==
  /\ started
  /\ \E id \in (IF env.mode = "life" THEN {2} ELSE StreamIds) :
       ApiTurn(LAMBDA S : writeChain(S, id),
               Op("writeChain", id, "-", NoOffset, << >>))

RegisterByteEvent ==
  /\ started
  /\ \E type \in ByteEventTypes, id \in StreamIds, offset \in 0..MaxOffset :
       ApiTurn(LAMBDA S : registerByteEventCallback(S, type, id, offset, 1),
               Op("registerByteEventCallback", id, type, offset, << >>))

CancelByteEvents ==
  /\ started
  /\ \E type \in ByteEventTypes, id \in StreamIds,
        offset \in {NoOffset} \cup (1..MaxOffset) :
       ApiTurn(LAMBDA S : cancelByteEventCallbacksForStream(S, type, id, offset,
                                                            "app"),
               Op("cancelByteEventCallbacksForStream", id, type, offset, << >>))

NotifyPendingWriteOnConnection ==
  /\ started
  /\ ApiTurn(LAMBDA S : notifyPendingWriteOnConnection(S, TRUE),
             Op("notifyPendingWriteOnConnection", -1, "-", NoOffset, << >>))

NotifyPendingWriteOnStream ==
  /\ started
  /\ \E id \in StreamIds, wcb \in BOOLEAN :
       ApiTurn(LAMBDA S : notifyPendingWriteOnStream(S, id, wcb),
               Op("notifyPendingWriteOnStream", id, "-", NoOffset, << Flag(wcb) >>))

\* What the peer sends in one read of the socket
LifePackets ==
  {Pkt(k, 0) : k \in {"ack", "ping", "pingAck", "pathChallenge", "knobs",
                      "groups", "peerClose", "throw", "throwStd"}}
  \cup {Pkt(k, 1) : k \in {"data", "streamClosed"}}
  \cup {Pkt("newStream", 2)}

StreamPackets ==
  {Pkt("ack", 0), Pkt("ackTo", 0), Pkt("newStream", 2), Pkt("fin", 1)}
  \cup {Pkt(k, i) : k \in {"data", "streamClosed"}, i \in {1, 2}}

\* One read of the socket with a frame for every handler of
\* processCallbacksAfterNetworkData
FullBatch ==
  << Pkt("newStream", 2), Pkt("groups", 0), Pkt("ping", 0), Pkt("knobs", 0),
     Pkt("ack", 0), Pkt("maxStreamData", 1), Pkt("stopSending", 1) >>

\* Data for the application's stream and for one the peer opens
ReadBatches ==
  { << Pkt("newStream", 2), Pkt("data", 1), Pkt("data", 2) >>,
    << Pkt("newStream", 2), Pkt("data", 2) >>,
    << Pkt("data", 1) >>, << Pkt("fin", 1) >> }

\* An acknowledgement that echoes ECN marks, for a number of ack-eliciting
\* packets; the counters take the values of EcnCounts
EcnEcho(ce, ect0, ect1, expected) ==
  [kind |-> "ecnEcho", id |-> 0, ce |-> ce, ect0 |-> ect0, ect1 |-> ect1,
   expected |-> expected]

EcnSteps == {0, 1, MinEcnMarks}

EcnCounts == {0, 1} \cup (MinEcnMarks..MaxEcnCount)

EcnBatches ==
  { << EcnEcho(ce, ect0, ect1, expected) >> :
      ce \in {c \in {0, 1} : ecn.ecnCECountEchoed + c <= 1},
      ect0 \in {c \in EcnSteps : ecn.ecnECT0CountEchoed + c \in EcnCounts},
      ect1 \in {c \in EcnSteps : ecn.ecnECT1CountEchoed + c \in EcnCounts},
      expected \in {c \in EcnSteps :
                      ecn.minimumExpectedEcnMarksEchoed + c \in EcnCounts} }

\* The datagrams the application and the peer send
DatagramBufs == {1, 2}

Batches ==
  IF env.mode = "life"
  THEN {<< p >> : p \in LifePackets}
       \cup {<< p, Pkt("peerClose", 0) >> :
               p \in {Pkt("ping", 0), Pkt("knobs", 0), Pkt("ack", 0)}}
       \cup {<< Pkt("peerClose", 0), p >> :
               p \in {Pkt("ping", 0), Pkt("throw", 0)}}
       \cup {FullBatch}
  ELSE IF env.mode \in {"reads", "pause"} THEN ReadBatches
  ELSE IF env.mode = "writes"
  THEN {<< Pkt("maxStreamData", 1) >>, << Pkt("ack", 0) >>}
  ELSE IF env.mode = "ecn" THEN EcnBatches
  ELSE IF env.mode = "datagrams"
  THEN {<< Pkt("datagram", d) >> : d \in DatagramBufs}
  ELSE {<< p >> : p \in StreamPackets}

Kinds(pkts) == [j \in 1..Len(pkts) |-> pkts[j].kind]

OnNetworkData ==
  /\ socket
  /\ \E pkts \in Batches :
       NetTurn(LAMBDA S : onNetworkData(S, pkts),
               Op("onNetworkData", pkts[1].id, "-", NoOffset, Kinds(pkts)))

\* The write path sends packets: lossState.totalPacketsSent grows
PacketsSent ==
  /\ started
  /\ \E n \in EcnSteps \ {0} :
       /\ ecn.totalPacketsSent + n \in EcnCounts
       /\ Turn(LAMBDA S : [S EXCEPT !.ecn.totalPacketsSent = @ + n],
               Op("writeSocketData", -1, "-", NoOffset, << >>))

\* setTransportSettings again with the settings the transport has
SetTransportSettings ==
  /\ started
  /\ Turn(LAMBDA S : Ret(setTransportSettings(S, S.settings), "OK"),
          Op("setTransportSettings", -1, "-", NoOffset, << >>))

\* setTransportSettings with another datagramConfig
SetDatagramConfig ==
  /\ started
  /\ \E c \in DatagramConfigs :
       /\ c # settings.datagramConfig
       /\ ApiTurn(LAMBDA S :
                    Ret(setTransportSettings(
                          S, [S.settings EXCEPT !.datagramConfig = c]), "OK"),
                  Op("setTransportSettings", c.writeBufSize, "-", NoOffset,
                     << Flag(c.sendDropOldDataFirst) >>))

\* The handshake: the transport has encoded its transport parameters when
\* the peer's arrive; the peer advertises a datagram frame size or none.
Handshake ==
  /\ started /\ ~transportParametersEncoded /\ socket
  /\ \E size \in {0, 1} :
       NetTurn(LAMBDA S :
                 onNetworkData([S EXCEPT !.transportParametersEncoded = TRUE],
                               << Pkt("transportParameters", size) >>),
               Op("onNetworkData", size, "-", NoOffset,
                  << "transportParameters" >>))

WriteDatagram ==
  /\ started
  /\ Len(datagramState.writeBuffer) <= MaxDatagramsBuffered
  /\ \E buf \in DatagramBufs, outcome \in PopFrontOutcomes :
       ApiTurn(LAMBDA S : writeDatagram(S, buf, outcome),
               Op("writeDatagram", buf, "-", NoOffset, << outcome >>))

ReadDatagrams ==
  /\ started
  /\ \E atMost \in 0..MaxDatagramsBuffered :
       ApiTurn(LAMBDA S : readDatagrams(S, atMost),
               Op("readDatagrams", atMost, "-", NoOffset, << >>))

SetDatagramCallback ==
  /\ started
  /\ \E cb \in BOOLEAN :
       ApiTurn(LAMBDA S : setDatagramCallback(S, cb),
               Op("setDatagramCallback", -1, "-", NoOffset, << Flag(cb) >>))

\* The streams buffer data to send, or data of theirs gets sent
StreamBufferChanges ==
  /\ started
  /\ \E n \in 0..(UintModulus - 1) :
       /\ n # flowControlState.sumCurStreamBufferLen
       /\ Turn(LAMBDA S : [S EXCEPT !.flowControlState.sumCurStreamBufferLen = n],
               Op("writeChain", -1, "-", NoOffset, << >>))

GetConnectionBufferAvailable ==
  /\ started
  /\ Turn(LAMBDA S : getConnectionBufferAvailable(S),
          Op("getConnectionBufferAvailable", -1, "-", NoOffset, << >>))

WriteLooperFire ==
  /\ writeLooper
  /\ \E blocked \in BOOLEAN :
       Turn(LAMBDA S : pacedWriteDataToSocket(S, blocked),
            Op("pacedWriteDataToSocket", -1, "-", NoOffset, << Flag(blocked) >>))

SocketWritable ==
  /\ socket /\ writableCb
  /\ Turn(LAMBDA S : onSocketWritable(S),
          Op("onSocketWritable", -1, "-", NoOffset, << >>))

ReadLooperFire ==
  /\ readLooper
  /\ Turn(LAMBDA S : invokeReadDataAndCallbacks(S),
          Op("invokeReadDataAndCallbacks", -1, "-", NoOffset, << >>))

PeekLooperFire ==
  /\ peekLooper
  /\ Turn(LAMBDA S : invokePeekDataAndCallbacks(S),
          Op("invokePeekDataAndCallbacks", -1, "-", NoOffset, << >>))

\* The head of the event base's loop-callback queue runs; a closure that
\* finds nothing to do still leaves the queue.
RunAsync ==
  /\ asyncQ # << >>
  /\ Turn(LAMBDA S : runAsyncClosure([S EXCEPT !.asyncQ = Tail(@)],
                                     Head(S.asyncQ)),
          Op("runOnEvbAsync", Head(asyncQ).id, Head(asyncQ).type,
             Head(asyncQ).offset, << Head(asyncQ).kind >>))

\* A timer callback runs after the timer left the schedule.
Expire(S, t) == [S EXCEPT !.timers = @ \ {t}]

\* The idle timer's callback asks for a draining close.
IdleTimeoutExpired ==
  /\ "idle" \in timers
  /\ Turn(LAMBDA S : idleTimeoutExpired(Expire(S, "idle"), TRUE),
          Op("idleTimeoutExpired", -1, "-", NoOffset, << Flag(TRUE) >>))

PathValidationTimeoutExpired ==
  /\ "pathValidation" \in timers
  /\ Turn(LAMBDA S : pathValidationTimeoutExpired(Expire(S, "pathValidation")),
          Op("pathValidationTimeoutExpired", -1, "-", NoOffset, << >>))

LossTimeoutExpired ==
  /\ "loss" \in timers
  /\ Turn(LAMBDA S : lossTimeoutExpired(Expire(S, "loss"), FALSE),
          Op("lossTimeoutExpired", -1, "-", NoOffset, << >>))

AckTimeoutExpired ==
  /\ "ack" \in timers
  /\ Turn(LAMBDA S : ackTimeoutExpired(Expire(S, "ack"), FALSE),
          Op("ackTimeoutExpired", -1, "-", NoOffset, << >>))

KeepaliveTimeoutExpired ==
  /\ "keepalive" \in timers
  /\ Turn(LAMBDA S : keepaliveTimeoutExpired(Expire(S, "keepalive")),
          Op("keepaliveTimeoutExpired", -1, "-", NoOffset, << >>))

PingTimeoutExpired ==
  /\ "ping" \in timers
  /\ Turn(LAMBDA S : pingTimeoutExpired(Expire(S, "ping")),
          Op("pingTimeoutExpired", -1, "-", NoOffset, << >>))

DrainTimeoutExpired ==
  /\ "drain" \in timers
  /\ Turn(LAMBDA S : drainTimeoutExpired(Expire(S, "drain")),
          Op("drainTimeoutExpired", -1, "-", NoOffset, << >>))

DetachEventBase ==
  /\ started
  /\ Run(LAMBDA S : detachEventBase(S),
         Op("detachEventBase", -1, "-", NoOffset, << >>), "event", FALSE)

\* The only operation on a detached transport.
AttachEventBase ==
  /\ ~crashed /\ evb = 0 /\ lastOp = EventLoop
  /\ Install(attachEventBase(Cur, 1), Cur,
             Op("attachEventBase", -1, "-", NoOffset, << >>), "quiet")

\* The handler has returned to the event loop: what the turn showed of
\* itself (callbacks made, re-entrant call, states passed) is forgotten.
ReturnToEventLoop ==
  /\ ~crashed /\ lastOp # EventLoop
  /\ lastOp' = EventLoop /\ log' = << >> /\ csLog' = << closeState >>
  /\ react' = NoReaction /\ ret' = "-"
  /\ netObs' = NoNetObs
  /\ reaped' = << >> /\ delivered' = << >>
  /\ ref' = NoRef /\ closeImplExit' = NoExit /\ ub' = FALSE
  /\ bufferAvailable' = NoBufferAvailable
  /\ UNCHANGED << closeState, timers, readLooper, peekLooper, writeLooper,
       socket, bound, writableCb, evb, connCallback, connSetupCallback,
       transportReadyNotified, localConnectionError, peerConnectionError,
       exceptionCloseWhat, streams, closedStreams, resetSent, readable,
       peekable, newPeerStreams, newPeerStreamGroups, created, pendingData,
       receivedNewPacketBeforeWrite, readCallbacks, peekCallbacks, byteEvents,
       deliverable, txSet, ackedOffset, txOffset, pendingWriteCallbacks,
       connWriteCallback, pingCallback, datagramCallback, pendingEvents, ecn, flowControlState,
           outstandingPathValidation, datagramState,
           transportParametersEncoded,
       outstandings, congestionController, bufferedWrite, closeSent,
       asyncQ, settings, env, started, drainArms, nRegs, notes, lastFired,
       crashed >>

\* ------------------------------------------------------------------ Init
\* The transport after construction and start: callbacks installed by the
\* application, no stream, no timer, socket open and bound.
Constructed ==
  /\ closeState = "OPEN" /\ timers = {}
  /\ readLooper = FALSE /\ peekLooper = FALSE /\ writeLooper = FALSE
  /\ socket = TRUE /\ bound = TRUE /\ writableCb = FALSE /\ evb = 1
  /\ connCallback = TRUE /\ connSetupCallback = TRUE
  /\ localConnectionError = NoErr /\ peerConnectionError = NoErr
  /\ exceptionCloseWhat = ""
  /\ streams = {} /\ closedStreams = {} /\ resetSent = {}
  /\ readable = {} /\ peekable = {}
  /\ newPeerStreams = << >> /\ newPeerStreamGroups = << >>
  /\ created = {} /\ pendingData = {} /\ receivedNewPacketBeforeWrite = FALSE
  /\ readCallbacks = EmptyMap /\ peekCallbacks = EmptyMap
  /\ byteEvents = [t \in ByteEventTypes |-> EmptyMap]
  /\ deliverable = {} /\ txSet = {}
  /\ ackedOffset = [i \in StreamIds |-> -1]
  /\ txOffset = [i \in StreamIds |-> -1]
  /\ pendingWriteCallbacks = EmptyMap /\ connWriteCallback = FALSE
  /\ pingCallback = FALSE /\ datagramCallback = FALSE
  /\ pendingEvents = NoPendingEvents /\ outstandings = 0
  /\ ecn = NoEcn /\ flowControlState = [sumCurStreamBufferLen |-> 0]
  /\ outstandingPathValidation = FALSE
  /\ datagramState = NoDatagrams
  /\ transportParametersEncoded = FALSE
  /\ bufferAvailable = NoBufferAvailable
  /\ congestionController = TRUE /\ bufferedWrite = FALSE
  /\ closeSent = FALSE /\ asyncQ = << >>
  /\ log = << >> /\ react = NoReaction
  /\ csLog = << "OPEN" >> /\ ret = "-"
  /\ netObs = NoNetObs
  /\ reaped = << >> /\ delivered = << >>
  /\ closeImplExit = NoExit /\ drainArms = 0
  /\ nRegs = 0 /\ notes = << >>
  /\ lastFired = [t \in ByteEventTypes |-> [i \in StreamIds |-> -1]]
  /\ ub = FALSE /\ crashed = FALSE
  /\ ref = NoRef /\ started = FALSE /\ lastOp = EventLoop

\* The connection's life cycle: closes, timers, the event base, re-entrant
\* closes from callbacks.
Init ==
  /\ Constructed
  /\ settings \in LifeSettings
  /\ transportReadyNotified \in {TRUE, settings # DefaultSettings}
  /\ env = [mode |-> "life", events |-> MaxEvents,
            reacts |-> {"close", "closeNow", "cancelSame",
                        "unregisterWrite"},
            hash |-> << 1, 2, 3 >>]

\* Stream input and output on an established connection.
InitStreams ==
  /\ Constructed
  /\ transportReadyNotified = TRUE
  /\ settings \in StreamSettings
  /\ env = [mode |-> "streams", events |-> MaxStreamEvents,
            reacts |-> {"cancelSame", "registerSame", "readSame"},
            hash |-> << 1, 2, 3 >>]

\* The orders in which the stream manager's set of readable streams can
\* hand out the stream ids
HashOrders ==
  { << 1, 2, 3 >>, << 1, 3, 2 >>, << 2, 1, 3 >>, << 2, 3, 1 >>,
    << 3, 1, 2 >>, << 3, 2, 1 >> }

\* Reading from several streams, with and without orderedReadCallbacks.
InitReads ==
  /\ Constructed
  /\ transportReadyNotified = TRUE
  /\ settings \in ReadSettings
  /\ \E h \in HashOrders :
       env = [mode |-> "reads", events |-> MaxReadEvents,
              reacts |-> {"readSame", "setReadOf", "unsetReadOf"},
              hash |-> h]

Next ==
  \/ ReturnToEventLoop
  \/ AppSetUp
  \/ AppClose
  \/ AppCloseNow
  \/ AppCloseGracefully
  \/ WriteChain
  \/ OnNetworkData
  \/ WriteLooperFire
  \/ SocketWritable
  \/ ReadLooperFire
  \/ PeekLooperFire
  \/ RunAsync
  \/ IdleTimeoutExpired
  \/ PathValidationTimeoutExpired
  \/ LossTimeoutExpired
  \/ AckTimeoutExpired
  \/ KeepaliveTimeoutExpired
  \/ PingTimeoutExpired
  \/ DrainTimeoutExpired
  \/ DetachEventBase
  \/ AttachEventBase

Spec == Init /\ [][Next]_vars

NextStreams ==
  \/ ReturnToEventLoop
  \/ AppSetUp
  \/ SetReadCallback
  \/ SetPeekCallback
  \/ PauseOrResumeRead
  \/ Read
  \/ Peek
  \/ Consume
  \/ StopSending
  \/ ResetStream
  \/ WriteChain
  \/ RegisterByteEvent
  \/ CancelByteEvents
  \/ NotifyPendingWriteOnConnection
  \/ NotifyPendingWriteOnStream
  \/ OnNetworkData
  \/ WriteLooperFire
  \/ ReadLooperFire
  \/ PeekLooperFire
  \/ RunAsync

SpecStreams == InitStreams /\ [][NextStreams]_vars

NextReads ==
  \/ ReturnToEventLoop
  \/ AppSetUp
  \/ SetReadCallback
  \/ PauseOrResumeRead
  \/ Read
  \/ OnNetworkData
  \/ ReadLooperFire

SpecReads == InitReads /\ [][NextReads]_vars

\* ECN validation on a connection that marks its packets.
InitEcn ==
  /\ Constructed
  /\ transportReadyNotified = TRUE
  /\ settings \in EcnSettings
  /\ env = [mode |-> "ecn", events |-> 0, reacts |-> {},
            hash |-> << 1, 2, 3 >>]

NextEcn ==
  \/ ReturnToEventLoop
  \/ AppSetUp
  \/ SetTransportSettings
  \/ PacketsSent
  \/ OnNetworkData

SpecEcn == InitEcn /\ [][NextEcn]_vars

\* The space left in the connection's send buffer.
InitBuffer ==
  /\ Constructed
  /\ transportReadyNotified = TRUE
  /\ settings \in BufferSettings
  /\ env = [mode |-> "buffer", events |-> 0, reacts |-> {},
            hash |-> << 1, 2, 3 >>]

NextBuffer ==
  \/ ReturnToEventLoop
  \/ AppSetUp
  \/ StreamBufferChanges
  \/ GetConnectionBufferAvailable

SpecBuffer == InitBuffer /\ [][NextBuffer]_vars

\* Datagrams written and read on a connection, before and after its close.
InitDatagrams ==
  /\ Constructed
  /\ transportReadyNotified = TRUE
  /\ settings \in DatagramSettings
  /\ env = [mode |-> "datagrams", events |-> 0, reacts |-> {},
            hash |-> << 1, 2, 3 >>]

NextDatagrams ==
  \/ ReturnToEventLoop
  \/ AppSetUp
  \/ Handshake
  \/ SetDatagramConfig
  \/ SetDatagramCallback
  \/ WriteDatagram
  \/ ReadDatagrams
  \/ OnNetworkData
  \/ ReadLooperFire
  \/ WriteLooperFire
  \/ AppClose
  \/ AppCloseGracefully

SpecDatagrams == InitDatagrams /\ [][NextDatagrams]_vars

\* Write callbacks that wait for room to write, and the ways they end.
InitWrites ==
  /\ Constructed
  /\ transportReadyNotified = TRUE
  /\ settings = PlainSettings
  /\ env = [mode |-> "writes", events |-> 0, reacts |-> {"close"},
            hash |-> << 1, 2, 3 >>]

NextWrites ==
  \/ ReturnToEventLoop
  \/ AppSetUp
  \/ NotifyPendingWriteOnConnection
  \/ NotifyPendingWriteOnStream
  \/ RunAsync
  \/ OnNetworkData
  \/ ResetNonControlStreams
  \/ AppClose

SpecWrites == InitWrites /\ [][NextWrites]_vars

\* Read and peek callbacks that are paused and resumed.
InitPause ==
  /\ Constructed
  /\ transportReadyNotified = TRUE
  /\ settings = PlainSettings
  /\ env = [mode |-> "pause", events |-> 0, reacts |-> {},
            hash |-> << 1, 2, 3 >>]

NextPause ==
  \/ ReturnToEventLoop
  \/ AppSetUp
  \/ SetReadCallback
  \/ SetPeekCallback
  \/ PauseOrResumeRead
  \/ PauseOrResumePeek
  \/ OnNetworkData
  \/ ReadLooperFire
  \/ PeekLooperFire

SpecPause == InitPause /\ [][NextPause]_vars

\* ------------------------------------------------------------ properties
CloseStateMoves ==
  { << "OPEN", "GRACEFUL_CLOSING" >>, << "OPEN", "CLOSED" >>,
    << "GRACEFUL_CLOSING", "CLOSED" >> }

\* C1: closeState only moves Open -> GracefulClosing, Open -> Closed or
\* GracefulClosing -> Closed: every state a turn passes through (csLog, which
\* starts with the state the turn began in and ends with the state it
\* leaves) follows the one before it by one of these moves.
C1_CloseStateMonotone ==
  [][ /\ csLog'[1] = closeState
      /\ ~crashed' => closeState' = csLog'[Len(csLog')]
      /\ \A i \in 1..(Len(csLog') - 1) :
           << csLog'[i], csLog'[i + 1] >> \in CloseStateMoves ]_vars

\* A graceful close that went through both moves in one turn
C1_Witness ==
  /\ csLog = << "OPEN", "GRACEFUL_CLOSING", "CLOSED" >>
  /\ closeState = "CLOSED"

CloseReactions == {"close", "closeNow", "closeGracefully"}

DispatchRoutines ==
  { "handleNewStreams", "handleNewGroupedStreamCallbacks",
    "handlePingCallbacks", "handleKnobCallbacks", "handleDeliveryCallbacks",
    "handleCancelByteEventCallbacks", "handleConnWritable",
    "processCallbacksAfterWriteData", "invokeReadDataAndCallbacks",
    "invokePeekDataAndCallbacks" }

\* C3: once a callback run by a dispatch routine has closed the connection,
\* no dispatch routine invokes a further callback in that turn.
C3_NoCallbackAfterClose ==
  (react.kind \in CloseReactions /\ log[react.at].cs = "OPEN")
    => \A j \in (react.at + 1)..Len(log) : log[j].by \notin DispatchRoutines

\* C4: while Closed no looper runs and no timer but drain is scheduled.
C4_ClosedIsQuiet ==
  closeState = "CLOSED"
    => /\ ~readLooper /\ ~peekLooper /\ ~writeLooper
       /\ timers \subseteq {"drain"}

\* C5: when closeImpl returns after being entered on a connection that was
\* not Closed, closeState is Closed, only drain may be scheduled, the three
\* loopers are stopped, outstandings are reset and the congestion
\* controller is released.
C5_CloseImplPostcondition ==
  closeImplExit.done
    => /\ closeImplExit.entryState # "CLOSED"
       /\ closeImplExit.closeState = "CLOSED"
       /\ closeImplExit.timers \subseteq {"drain"}
       /\ ~closeImplExit.readLooper /\ ~closeImplExit.peekLooper
       /\ ~closeImplExit.writeLooper
       /\ closeImplExit.outstandings = 0
       /\ ~closeImplExit.congestionController

\* closeImpl returned after a callback it ran re-entered the transport
C5_Witness ==
  /\ closeImplExit.done
  /\ react.kind # "none" /\ react.at > closeImplExit.from
  /\ outstandings = 0 /\ lastOp.name = "close"

\* The callbacks with which a close ends a connection
TerminalCallbacks ==
  {"onConnectionEnd", "onConnectionError", "onConnectionEndWithError",
   "onConnectionSetupError"}

\* The positions in the callbacks of closeImpl at which cb was called for id
Calls(cb, id) ==
  {j \in 1..Len(closeImplExit.seg) :
     closeImplExit.seg[j].cb = cb /\ closeImplExit.seg[j].id = id}

\* cb was called for id once, with the close's classified error
ErroredOnce(cb, id) ==
  /\ Cardinality(Calls(cb, id)) = 1
  /\ \A j \in Calls(cb, id) : closeImplExit.seg[j].err = closeImplExit.cancelCode

\* The callbacks registered when closeImpl was entered, the per-stream write
\* callbacks apart, got their error once, and the registries are empty when
\* closeImpl returns
C6_OthersErrored ==
  /\ \A i \in closeImplExit.regs.read : ErroredOnce("readError", i)
  /\ \A i \in closeImplExit.regs.peek : ErroredOnce("peekError", i)
  /\ closeImplExit.regs.connWrite => ErroredOnce("onConnectionWriteError", -1)
  /\ \A t \in closeImplExit.regs.be :
       notes[t].canceled = 1 /\ notes[t].fired = 0
  /\ closeImplExit.empty

C6_AllErrored ==
  /\ C6_OthersErrored
  /\ \A i \in closeImplExit.regs.write : ErroredOnce("onStreamWriteError", i)

\* The application unregistered the write callback of stream i from inside
\* a callback of the close
C6_Unregistered(i) ==
  react.kind = "unregisterWrite" /\ react.rid = i

C6_AllStillRegisteredErrored ==
  /\ C6_OthersErrored
  /\ \A i \in closeImplExit.regs.write :
       \/ ErroredOnce("onStreamWriteError", i)
       \/ C6_Unregistered(i) /\ Calls("onStreamWriteError", i) = {}

\* The terminal callbacks closeImpl made, as positions of its callbacks
C6_Terminals ==
  {j \in 1..Len(closeImplExit.seg) :
     closeImplExit.seg[j].cb \in TerminalCallbacks}

\* The terminal callback the close owes: the set-up error when transport
\* ready was never notified, the connection's end or error otherwise
C6_TerminalKind(j) ==
  IF closeImplExit.termReady
  THEN closeImplExit.seg[j].cb # "onConnectionSetupError"
  ELSE closeImplExit.seg[j].cb = "onConnectionSetupError"

\* C6 as stated: a close by any path errors every registered callback once
\* with the classified error, empties the registries and then delivers the
\* terminal connection callback.
C6_CloseNotifiesAndEnds ==
  closeImplExit.done
    => /\ C6_AllErrored
       /\ \E j \in C6_Terminals :
            /\ C6_TerminalKind(j)
            /\ j = Len(closeImplExit.seg)

\* C6 amended: as stated, but a per-stream write callback that the
\* application unregistered from inside a callback of the close is not
\* errored, and the terminal callback is delivered if and only if the
\* connection (or set-up) callback is still installed when closeImpl reaches
\* that step; close() and closeGracefully() reset both on entry.
C6_CloseNotifiesAndEndsIfInstalled ==
  closeImplExit.done
    => /\ C6_AllStillRegisteredErrored
       /\ Cardinality(C6_Terminals) <= 1
       /\ \A j \in C6_Terminals :
            C6_TerminalKind(j) /\ j = Len(closeImplExit.seg)
       /\ (C6_Terminals # {})
            <=> IF closeImplExit.termReady THEN closeImplExit.termConn
                ELSE closeImplExit.termSetup

\* A close that errored a read and a peek callback and ended with the
\* terminal callback
C6_Witness ==
  /\ closeImplExit.done
  /\ closeImplExit.regs.read # {} /\ closeImplExit.regs.peek # {}
  /\ C6_Terminals # {}
  /\ Len(closeImplExit.seg) = 3

\* C7: a close() from a callback run by a close in progress changes nothing:
\* the turn delivers the same callbacks and leaves the same timers and
\* socket as the turn without the nested call (ref).
C7_NestedCloseIsNoOp ==
  ref.set
    => /\ log = ref.log
       /\ timers = ref.timers
       /\ socket = ref.socket /\ bound = ref.bound

\* The conditions under which closeImpl arms the drain timer
C8_Drains ==
  /\ closeImplExit.drainIn /\ closeImplExit.shouldDrain
  /\ ~isResetCode(closeImplExit.cancelCode)
  /\ ~isAbandonCode(closeImplExit.cancelCode)
  /\ ~isInvalidMigrationCode(closeImplExit.cancelCode)

\* C8: when closeImpl returns the drain timer is armed exactly if draining
\* was requested, shouldDrain is set and the close is no reset, abandon or
\* invalid migration; otherwise the socket is closed and the connection
\* unbound.  The drain timer is armed at most once.
C8_DrainIffRequested ==
  /\ drainArms <= 1
  /\ closeImplExit.done
       => /\ ("drain" \in closeImplExit.timers) <=> C8_Drains
          /\ ~C8_Drains => ~closeImplExit.socket /\ ~closeImplExit.bound
          /\ ~closeImplExit.drainWasScheduled

\* A draining close that was classified as a reset: no drain timer
C8_Witness ==
  /\ closeImplExit.done
  /\ closeImplExit.drainIn /\ closeImplExit.shouldDrain
  /\ isResetCode(closeImplExit.cancelCode)
  /\ ~socket /\ ~bound /\ timers = {}

\* What the idle timer's expiry does to a connection that is not Closed,
\* shouldDrain set and transport ready notified, apart from the callback
C9_IdleCloses ==
  /\ closeState = "CLOSED"
  /\ localConnectionError.code = "IDLE_TIMEOUT"
  /\ closeImplExit.done /\ ~closeImplExit.wroteClose
  /\ "drain" \in timers /\ socket /\ bound

C9_IdleCase ==
  /\ lastOp.name = "idleTimeoutExpired"
  /\ csLog[1] # "CLOSED"
  /\ settings.shouldDrain /\ transportReadyNotified

\* C9 as stated: the idle expiry closes with IDLE_TIMEOUT, writes no close
\* packet, arms the drain timer, keeps the socket and the connection
\* callback receives onConnectionEnd.
C9_IdleTimeoutEnds ==
  C9_IdleCase
    => /\ C9_IdleCloses
       /\ \E j \in 1..Len(log) : log[j].cb = "onConnectionEnd"

\* C9 amended: onConnectionEnd is received if a connection callback is
\* still installed when the close ends and
\* useConnectionEndWithErrorCallback is off; with the setting on
\* onConnectionEndWithError is received instead, and without a callback
\* nothing.
C9_IdleTimeoutEndsIfInstalled ==
  C9_IdleCase
    => /\ C9_IdleCloses
       /\ (\E j \in 1..Len(log) : log[j].cb = "onConnectionEnd")
            <=> (closeImplExit.termConn
                 /\ ~settings.useConnectionEndWithErrorCallback)
       /\ (\E j \in 1..Len(log) : log[j].cb = "onConnectionEndWithError")
            <=> (closeImplExit.termConn
                 /\ settings.useConnectionEndWithErrorCallback)
       /\ \A j \in 1..Len(log) : log[j].cb # "onConnectionError"

\* The idle timer expired on an Open connection whose application reads
C9_Witness ==
  /\ C9_IdleCase /\ csLog = << "OPEN", "CLOSED" >>
  /\ \E j \in 1..Len(log) : log[j].cb = "readError"
  /\ \E j \in 1..Len(log) : log[j].cb = "onConnectionEnd"
  /\ "drain" \in timers /\ socket

\* C10: closeGracefully on an Open connection moves to GracefulClosing,
\* stops the read and peek loopers and cancels every application callback
\* with NO_ERROR; the connection is Closed at once exactly if no stream is
\* left, a GracefulClosing connection always has a stream, and the close
\* without error of the graceful path is entered only with no stream.
C10_GracefulClose ==
  /\ (closeState = "GRACEFUL_CLOSING" /\ ~crashed) => streams # {}
  /\ (closeImplExit.done /\ closeImplExit.errorCode = NoErr)
       => /\ closeImplExit.entryState = "GRACEFUL_CLOSING"
          /\ closeImplExit.streamCountAtEntry = 0
  /\ (lastOp.name = "closeGracefully" /\ csLog[1] = "OPEN")
       => /\ Len(csLog) >= 2 /\ csLog[2] = "GRACEFUL_CLOSING"
          /\ ~readLooper /\ ~peekLooper
          /\ readCallbacks = EmptyMap /\ peekCallbacks = EmptyMap
          /\ byteEvents["ACK"] = EmptyMap /\ byteEvents["TX"] = EmptyMap
          /\ pendingWriteCallbacks = EmptyMap /\ ~connWriteCallback
          /\ \A j \in 1..Len(log) :
               log[j].by = "cancelAllAppCallbacks"
                 => log[j].err.code = "NO_ERROR"
          /\ (closeState = "CLOSED") <=> (streams = {})

\* A graceful close that cancelled a read callback and waits for the stream
C10_Witness ==
  /\ lastOp.name = "closeGracefully"
  /\ csLog = << "OPEN", "GRACEFUL_CLOSING" >>
  /\ streams # {}
  /\ \E j \in 1..Len(log) : log[j].cb = "readError"

\* C11: when a packet of the batch handed to onNetworkData leaves
\* peerConnectionError set, closeImpl runs with the transport code NO_ERROR
\* and the message "Peer closed", no further packet of the batch is read, no
\* dispatch pass and no callback follows the close, and every callback the
\* close cancels carries the peer's error.
PeerClosed == QuicError("Transport", "NO_ERROR", "Peer closed")

C11_PeerCloseCase ==
  /\ peerConnectionError = NoErr /\ peerConnectionError' # NoErr
  /\ ~crashed'

C11_Carriers ==
  {"readError", "peekError", "onStreamWriteError", "onConnectionWriteError",
   "onConnectionError", "onConnectionEndWithError",
   "onConnectionSetupError"}

C11_PeerCloseStep ==
  C11_PeerCloseCase =>
    /\ lastOp'.name = "onNetworkData"
    /\ closeImplExit'.done
    /\ closeImplExit'.errorCode = PeerClosed
    /\ closeImplExit'.entryState # "CLOSED"
    /\ closeState' = "CLOSED"
    /\ netObs'.pktsRead = closeImplExit'.pktsRead
    /\ lastOp'.arg[netObs'.pktsRead] = "peerClose"
    /\ netObs'.passes = closeImplExit'.passes
    /\ Len(log') = closeImplExit'.from + Len(closeImplExit'.seg)
    /\ \A j \in 1..Len(closeImplExit'.seg) :
         /\ closeImplExit'.seg[j].by \in
              {"cancelAllAppCallbacks", "cancelByteEventCallbacks", "closeImpl"}
         /\ closeImplExit'.seg[j].cb \in C11_Carriers
              => closeImplExit'.seg[j].err = peerConnectionError'

C11_PeerCloseEndsBatch == [][C11_PeerCloseStep]_vars

C11_Witness ==
  /\ lastOp.name = "onNetworkData" /\ Len(lastOp.arg) = 2
  /\ lastOp.arg[1] = "peerClose"
  /\ closeImplExit.done /\ closeImplExit.errorCode = PeerClosed
  /\ netObs.pktsRead = 1
  /\ \E j \in 1..Len(log) :
       log[j].cb = "readError" /\ log[j].err = peerConnectionError

\* C12: for each stream and byte-event type the offsets onByteEvent is fired
\* for never decrease over the run, whichever path fires them, and the
\* offsets of the cancellations of a turn never decrease either.
EventsOf(l, cb, type, id) ==
  SelectSeq(l, LAMBDA e : e.cb = cb /\ e.type = type /\ e.id = id)

FireLoops == {"handleDeliveryCallbacks", "processCallbacksAfterWriteData"}

LoopEventsOf(l, type, id) ==
  SelectSeq(l, LAMBDA e : /\ e.cb = "onByteEvent" /\ e.type = type
                          /\ e.id = id /\ e.by \in FireLoops)

NonDecreasingFrom(q, start) ==
  \A j \in 1..Len(q) : q[j].off >= (IF j = 1 THEN start ELSE q[j - 1].off)

C12_CanceledInOrder ==
  \A type \in ByteEventTypes, id \in StreamIds :
     NonDecreasingFrom(EventsOf(log', "onByteEventCanceled", type, id),
                       NoOffset)

C12_FiredInOrderStep ==
  /\ \A type \in ByteEventTypes, id \in StreamIds :
        NonDecreasingFrom(EventsOf(log', "onByteEvent", type, id),
                          lastFired[type][id])
  /\ C12_CanceledInOrder

C12_FiredInOffsetOrder == [][C12_FiredInOrderStep]_vars

\* C12 as the code has it: the two loops always fire the smallest offset
\* that is queued, so the offsets a loop fires in a turn without a new
\* registration never decrease; the offsets of the cancellations of a turn
\* never decrease.
C12_LoopsFireLeastStep ==
  /\ \A j \in 1..Len(log') :
        (log'[j].cb = "onByteEvent" /\ log'[j].by \in FireLoops)
          => (log'[j].least = NoOffset \/ log'[j].off <= log'[j].least)
  /\ nRegs' = nRegs =>
        \A type \in ByteEventTypes, id \in StreamIds :
           NonDecreasingFrom(LoopEventsOf(log', type, id), NoOffset)
  /\ C12_CanceledInOrder

C12_LoopsFireLeast == [][C12_LoopsFireLeastStep]_vars

C12_Witness ==
  \E j \in 1..Len(log), k \in 1..Len(log) :
     /\ j < k
     /\ log[j].cb = "onByteEvent" /\ log[k].cb = "onByteEvent"
     /\ log[j].by = "handleDeliveryCallbacks" /\ log[k].by = log[j].by
     /\ log[j].id = log[k].id /\ log[j].off < log[k].off

\* C13: in every reachable state each byte-event queue, of either type and
\* of any stream, is sorted by non-decreasing offset from front to back.
SortedByOffset(q) ==
  \A j \in 1..Len(q), k \in 1..Len(q) : j < k => q[j].offset <= q[k].offset

C13_QueuesSorted ==
  \A type \in ByteEventTypes :
     \A id \in DOMAIN byteEvents[type] : SortedByOffset(byteEvents[type][id])

\* An entry registered later stands before an entry registered earlier.
C13_Witness ==
  \E type \in ByteEventTypes :
     \E id \in DOMAIN byteEvents[type] :
        /\ Len(byteEvents[type][id]) = 2
        /\ byteEvents[type][id][1].offset < byteEvents[type][id][2].offset
        /\ byteEvents[type][id][1].tk > byteEvents[type][id][2].tk

\* C14: onByteEvent of type ACK is called only for an offset at or below the
\* stream's largest deliverable offset, and when handleDeliveryCallbacks
\* has finished a deliverable stream with the connection still Open no ACK
\* entry at or below that offset is left in the stream's queue.
C14_AckFiredWhenDeliverable ==
  /\ \A j \in 1..Len(log) :
        (log[j].cb = "onByteEvent" /\ log[j].type = "ACK")
          => log[j].off <= log[j].ready
  /\ \A j \in 1..Len(delivered) :
        \A o \in delivered[j].left : o > delivered[j].max

C14_Witness ==
  /\ \E j \in 1..Len(log) :
        /\ log[j].cb = "onByteEvent" /\ log[j].type = "ACK"
        /\ log[j].by = "handleDeliveryCallbacks"
  /\ \E j \in 1..Len(delivered) : delivered[j].left # {}

\* C15: registerByteEventCallback for a (type, stream, offset, callback)
\* that is already queued returns INVALID_OPERATION, leaves the queues and
\* the deferred closures as they were and calls no onByteEventRegistered;
\* no queue ever holds two entries with the same offset and callback.
C15_Queued(type, id, offset, cb) ==
  /\ id \in DOMAIN byteEvents[type]
  /\ \E j \in 1..Len(byteEvents[type][id]) :
        /\ byteEvents[type][id][j].offset = offset
        /\ byteEvents[type][id][j].cb = cb

C15_NoTwins ==
  \A type \in ByteEventTypes :
     \A id \in DOMAIN byteEvents[type] :
        \A j \in 1..Len(byteEvents[type][id]),
           k \in 1..Len(byteEvents[type][id]) :
           (/\ j # k
            /\ byteEvents[type][id][j].offset = byteEvents[type][id][k].offset)
             => byteEvents[type][id][j].cb # byteEvents[type][id][k].cb

C15_DuplicateStep ==
  (/\ lastOp'.name = "registerByteEventCallback"
   /\ lastOp.name = "eventLoop"
   /\ C15_Queued(lastOp'.type, lastOp'.id, lastOp'.offset, 1))
    => /\ ret' = "INVALID_OPERATION"
       /\ byteEvents' = byteEvents
       /\ asyncQ' = asyncQ
       /\ nRegs' = nRegs
       /\ log' = << >>

C15_DuplicateRejected == [][C15_DuplicateStep /\ C15_NoTwins']_vars

C15_Witness ==
  /\ lastOp.name = "registerByteEventCallback"
  /\ ret = "INVALID_OPERATION"
  /\ C15_Queued(lastOp.type, lastOp.id, lastOp.offset, 1)
  /\ log = << >>

\* C16: cancelByteEventCallbacksForStream(type, id, offset) called by the
\* application on a sending-capable stream calls onByteEventCanceled exactly
\* once for each queued entry below the offset (for each entry when no
\* offset is given) and never twice for any entry; when the application
\* makes no further call from inside these callbacks, the entries at or
\* above the offset stay queued and unnotified, and a queue that became
\* empty has its map entry erased and its stream taken out of the
\* deliverable (ACK) or tx (TX) set.
C16_Below(type, id, offset) ==
  {j \in 1..Len(byteEvents[type][id]) :
     offset = NoOffset \/ byteEvents[type][id][j].offset < offset}

C16_Kept(type, id, offset) ==
  SelectSeq(byteEvents[type][id],
            LAMBDA en : offset # NoOffset /\ en.offset >= offset)

C16_Post(type, id, offset) ==
  /\ \A j \in 1..Len(byteEvents[type][id]) :
        LET tk == byteEvents[type][id][j].tk
        IN /\ notes'[tk].fired = notes[tk].fired
           /\ notes'[tk].canceled <= notes[tk].canceled + 1
           /\ j \in C16_Below(type, id, offset)
                => notes'[tk].canceled = notes[tk].canceled + 1
           /\ (j \notin C16_Below(type, id, offset) /\ react'.kind = "none")
                => notes'[tk].canceled = notes[tk].canceled
  /\ Len(EventsOf(log', "onByteEventCanceled", type, id))
       >= Cardinality(C16_Below(type, id, offset))
  /\ react'.kind = "none" =>
       /\ Len(log') = Cardinality(C16_Below(type, id, offset))
       /\ IF C16_Kept(type, id, offset) # << >>
          THEN /\ id \in DOMAIN byteEvents'[type]
               /\ byteEvents'[type][id] = C16_Kept(type, id, offset)
               /\ deliverable' = deliverable /\ txSet' = txSet
          ELSE /\ id \notin DOMAIN byteEvents'[type]
               /\ type = "ACK" => id \notin deliverable'
               /\ type = "TX" => id \notin txSet'

C16_CancelStep ==
  (/\ lastOp'.name = "cancelByteEventCallbacksForStream"
   /\ lastOp.name = "eventLoop"
   /\ ~isReceivingStream(lastOp'.id)
   /\ lastOp'.id \in DOMAIN byteEvents[lastOp'.type])
    => C16_Post(lastOp'.type, lastOp'.id, lastOp'.offset)

C16_CancelExactlyBelowDefined == [][react'.stale \/ C16_CancelStep]_vars

\* C17: checkForClosedStream takes a closed stream out of the stream
\* manager only when the stream has no read callback (or has been given its
\* EOM while removeStreamAfterEomCallbackUnset is off), no peek callback and
\* no pending ACK or TX byte event; any other closed stream stays in the
\* closed set, and a reaped stream has no read or peek entry left.
C17_Reapable(r) ==
  /\ ~r.readCb
       \/ (~settings.removeStreamAfterEomCallbackUnset /\ r.deliveredEOM)
  /\ ~r.peekCb
  /\ r.byteEvents = 0

C17_ReapedOf(id) == {j \in 1..Len(reaped) : reaped[j].id = id}

C17_Reaped ==
  \A j \in 1..Len(reaped) :
     /\ C17_Reapable(reaped[j])
     /\ reaped[j].id \notin streams
     /\ reaped[j].id \notin closedStreams
     /\ reaped[j].id \notin DOMAIN readCallbacks
     /\ reaped[j].id \notin DOMAIN peekCallbacks

C17_ReapStep ==
  /\ C17_Reaped'
  /\ \A id \in closedStreams :
        (id \notin closedStreams' /\ closeState' # "CLOSED")
          => \E j \in 1..Len(reaped') : reaped'[j].id = id

C17_ReapedOnlyWhenFree == [][C17_ReapStep]_vars

C17_Witness ==
  \E j \in 1..Len(reaped) : reaped[j].readCb /\ reaped[j].deliveredEOM

\* C18: in every reachable state every stream id that is a key of the read,
\* peek, ACK, TX or pending-write callback map is a stream of the stream
\* manager (open, or closed and not yet reaped).
C18_MapKeys ==
  DOMAIN readCallbacks \cup DOMAIN peekCallbacks
    \cup DOMAIN byteEvents["ACK"] \cup DOMAIN byteEvents["TX"]
    \cup DOMAIN pendingWriteCallbacks

C18_KeysAreStreams == C18_MapKeys \subseteq streams

\* C19: writeChain on a stream that is receive-only for this endpoint
\* returns INVALID_OPERATION, calls no callback and changes nothing of the
\* transport (no byte event, no data, no looper, no timer), whatever
\* closeState_ is and whether or not the stream exists.
TransportState ==
  << closeState, timers, readLooper, peekLooper, writeLooper, socket, bound,
     writableCb, evb, connCallback, connSetupCallback, transportReadyNotified,
     localConnectionError, peerConnectionError, exceptionCloseWhat, streams,
     closedStreams, resetSent, readable, peekable, newPeerStreams,
     newPeerStreamGroups, created, pendingData,
     receivedNewPacketBeforeWrite, readCallbacks, peekCallbacks, byteEvents,
     deliverable, txSet, ackedOffset, txOffset, pendingWriteCallbacks,
     connWriteCallback, pingCallback, datagramCallback, pendingEvents, ecn, flowControlState,
           outstandingPathValidation, datagramState,
           transportParametersEncoded,
     outstandings, congestionController, bufferedWrite, closeSent, asyncQ,
     settings >>

C19_WriteStep ==
  (/\ lastOp'.name = "writeChain" /\ lastOp.name = "eventLoop"
   /\ isReceivingStream(lastOp'.id))
    => /\ ret' = "INVALID_OPERATION"
       /\ log' = << >>
       /\ TransportState' = TransportState

C19_WriteOnReceiveOnly == [][C19_WriteStep]_vars

\* The call was refused on a closed connection that has the stream, and on
\* an open one that does not.
C19_Witness ==
  /\ lastOp.name = "writeChain" /\ lastOp.id = 2
  /\ ret = "INVALID_OPERATION"
  /\ closeState = "CLOSED"
  /\ 2 \in created

C19_WitnessOpen ==
  /\ lastOp.name = "writeChain" /\ lastOp.id = 2
  /\ ret = "INVALID_OPERATION"
  /\ closeState = "OPEN"
  /\ 2 \in streams

\* C20: an application call that fails a precondition returns a
\* LocalErrorCode, calls no callback and leaves the whole transport state
\* (connection state, callback registries, loopers, timers) as it was; for
\* read, peek, consume, writeChain, resetStream, stopSending,
\* setReadCallback, setPeekCallback, pause/resume, notifyPendingWriteOn-
\* Stream/Connection and registerByteEventCallback.
C20_Calls ==
  {"read", "peek", "consume", "writeChain", "resetStream", "stopSending",
   "setReadCallback", "setPeekCallback", "pauseOrResumeRead",
   "notifyPendingWriteOnStream", "notifyPendingWriteOnConnection",
   "registerByteEventCallback"}

C20_RefusedStep ==
  (/\ lastOp.name = "eventLoop" /\ lastOp'.name \in C20_Calls
   /\ ret' \notin {"OK", "-"})
    => /\ log' = << >>
       /\ TransportState' = TransportState

C20_RefusedCallChangesNothing == [][C20_RefusedStep]_vars

\* C21: setReadCallback and setPeekCallback with a null callback, for a
\* stream that has no entry in the callback map, return INVALID_OPERATION
\* to the caller and create no entry.
C21_NullFirstStep ==
  /\ (/\ lastOp.name = "eventLoop" /\ lastOp'.name = "setReadCallback"
      /\ lastOp'.arg = << "false" >>
      /\ lastOp'.id \in streams /\ ~isSendingStream(lastOp'.id)
      /\ closeState = "OPEN"
      /\ lastOp'.id \notin DOMAIN readCallbacks)
       => /\ ret' = "INVALID_OPERATION"
          /\ lastOp'.id \notin DOMAIN readCallbacks'
  /\ (/\ lastOp.name = "eventLoop" /\ lastOp'.name = "setPeekCallback"
      /\ lastOp'.arg = << "false" >>
      /\ lastOp'.id \in streams
      /\ closeState = "OPEN"
      /\ lastOp'.id \notin DOMAIN peekCallbacks)
       => /\ ret' = "INVALID_OPERATION"
          /\ lastOp'.id \notin DOMAIN peekCallbacks'

C21_NullFirstRejected == [][C21_NullFirstStep]_vars

\* C22: once the read (peek) callback entry of a stream holds null, a
\* further setReadCallback (setPeekCallback) with a null callback returns an
\* error and changes nothing; in particular no STOP_SENDING is sent.
C22_ReadNullCase(flag) ==
  /\ lastOp.name = "eventLoop" /\ lastOp'.name = "setReadCallback"
  /\ lastOp'.arg = << flag >>
  /\ lastOp'.id \in streams /\ ~isSendingStream(lastOp'.id)
  /\ closeState = "OPEN"
  /\ lastOp'.id \in DOMAIN readCallbacks
  /\ ~readCallbacks[lastOp'.id].readCb

C22_PeekNullCase(flag) ==
  /\ lastOp.name = "eventLoop" /\ lastOp'.name = "setPeekCallback"
  /\ lastOp'.arg = << flag >>
  /\ lastOp'.id \in streams
  /\ closeState = "OPEN"
  /\ lastOp'.id \in DOMAIN peekCallbacks
  /\ ~peekCallbacks[lastOp'.id].peekCb

C22_NullAfterNullStep ==
  (C22_ReadNullCase("false") \/ C22_PeekNullCase("false"))
    => /\ ret' \notin {"OK", "-"}
       /\ TransportState' = TransportState

C22_NullAfterNullRejected == [][C22_NullAfterNullStep]_vars

\* C22 as the code has it: over a null read entry a callback is refused
\* with INVALID_OPERATION and nothing changes, while another null is
\* accepted and, given with an error code, sends STOP_SENDING again unless
\* the stream is closed; over a null peek entry any callback is accepted.
C22_OverNullStep ==
  /\ C22_ReadNullCase("true")
       => /\ ret' = "INVALID_OPERATION"
          /\ TransportState' = TransportState
          /\ log' = << >>
  /\ C22_ReadNullCase("false")
       => /\ ret' = "OK"
          /\ readCallbacks' = readCallbacks
          /\ lastOp'.id \notin closedStreams
               => /\ StopSendingFrame(lastOp'.id) \in pendingData'
                  /\ writeLooper'
          /\ lastOp'.id \in closedStreams => pendingData' = pendingData
  /\ \A flag \in {"true", "false"} :
        C22_PeekNullCase(flag)
          => /\ ret' = "OK"
             /\ peekCallbacks'[lastOp'.id].peekCb = (flag = "true")

C22_OverNull == [][C22_OverNullStep]_vars

C22_Witness ==
  /\ lastOp.name = "setReadCallback" /\ lastOp.arg = << "true" >>
  /\ ret = "INVALID_OPERATION"
  /\ lastOp.id \in DOMAIN readCallbacks
  /\ ~readCallbacks[lastOp.id].readCb

\* C23: on an open connection setReadCallback(id, null, err) on an existing
\* receiving stream whose receive state is not Closed enqueues a
\* STOP_SENDING frame for the stream and reschedules the write looper; when
\* the receive state is Closed no frame is enqueued and the call succeeds.
C23_NullWithErrorCase ==
  /\ lastOp.name = "eventLoop" /\ lastOp'.name = "setReadCallback"
  /\ lastOp'.arg = << "false" >>
  /\ lastOp'.id \in streams /\ ~isSendingStream(lastOp'.id)
  /\ closeState = "OPEN"

C23_Outcome ==
  /\ ret' = "OK"
  /\ lastOp'.id \notin closedStreams
       => /\ StopSendingFrame(lastOp'.id) \in pendingData'
          /\ writeLooper'
  /\ lastOp'.id \in closedStreams => pendingData' = pendingData

C23_StopSendingStep == C23_NullWithErrorCase => C23_Outcome

C23_StopSendingOnNull == [][C23_StopSendingStep]_vars

\* C23 as the code has it: the same, for a stream that has a read-callback
\* entry; without one the call returns INVALID_OPERATION and sends nothing.
C23_WithEntryStep ==
  C23_NullWithErrorCase
    => IF lastOp'.id \in DOMAIN readCallbacks
       THEN C23_Outcome
       ELSE /\ ret' = "INVALID_OPERATION"
            /\ pendingData' = pendingData

C23_StopSendingOnNullWithEntry == [][C23_WithEntryStep]_vars

C23_Witness ==
  /\ lastOp.name = "setReadCallback" /\ lastOp.arg = << "false" >>
  /\ ret = "OK"
  /\ closeState = "OPEN"
  /\ lastOp.id \notin closedStreams
  /\ StopSendingFrame(lastOp.id) \in pendingData
  /\ writeLooper

C23_WitnessClosed ==
  /\ lastOp.name = "setReadCallback" /\ lastOp.arg = << "false" >>
  /\ ret = "OK"
  /\ lastOp.id \in closedStreams
  /\ StopSendingFrame(lastOp.id) \notin pendingData

\* C24: within one run of processCallbacksAfterNetworkData the callbacks
\* are issued in the fixed order of their categories (new peer streams,
\* stream groups, ping, knobs, byte-event cancellations for pending resets,
\* delivery byte events, flow-control updates with their write-ready
\* callbacks, stop-sending, connection-writable with pending stream
\* write-ready): none of an earlier category follows one of a later category.
C24_Category(by) ==
  CASE by = "handleNewStreams" -> 1
    [] by = "handleNewGroupedStreamCallbacks" -> 2
    [] by = "handlePingCallbacks" -> 3
    [] by = "handleKnobCallbacks" -> 4
    [] by = "handleCancelByteEventCallbacks" -> 6
    [] by = "handleDeliveryCallbacks" -> 7
    [] by = "handleStreamFlowControlUpdatedCallbacks" -> 8
    [] by = "handleStreamStopSendingCallbacks" -> 9
    [] by = "handleConnWritable" -> 10
    [] OTHER -> 0

C24_OneRun == lastOp.name = "onNetworkData" /\ netObs.passes = 1

C25_ReadEvents ==
  SelectSeq(log, LAMBDA e : e.by = "invokeReadDataAndCallbacks")

SanitizedMessages ==
  {"read() error", "consume() error", "writeChain() error",
   "resetStream() error", "lossTimeoutExpired() error",
   "writeSocketDataAndCatch()  error", "error onNetworkData()"}

C26_ClosedOnException(kinds) ==
  /\ lastOp.name = "eventLoop" /\ closeState # "CLOSED"
  /\ lastOp'.name = "onNetworkData" /\ lastOp'.arg[1] \in kinds
  /\ ~crashed'

C26_SanitizedStep ==
  C26_ClosedOnException({"throw", "throwStd"})
    => /\ closeState' = "CLOSED"
       /\ localConnectionError'.msg \in SanitizedMessages
       /\ localConnectionError'.msg # exceptionCloseWhat'

C26_WireMessageSanitized == [][C26_SanitizedStep]_vars

\* The close on an exception that is not a Quic exception does store the
\* fixed text, and the callbacks of the application get the exception's.
C26_StdExceptionStep ==
  C26_ClosedOnException({"throwStd"})
    => /\ closeState' = "CLOSED"
       /\ localConnectionError'.msg = "error onNetworkData()"
       /\ exceptionCloseWhat' = ExceptionText
       /\ \A i \in 1..Len(log') :
            log'[i].cb \in {"onConnectionError", "onConnectionSetupError"}
              => log'[i].err.msg = ExceptionText

C26_StdExceptionSanitized == [][C26_StdExceptionStep]_vars

C26_StdExceptionSeen ==
  /\ lastOp.name = "onNetworkData" /\ lastOp.arg = << "throwStd" >>
  /\ closeState = "CLOSED"
  /\ localConnectionError.msg = "error onNetworkData()"
  /\ \E i \in 1..Len(log) : log[i].cb = "onConnectionError"

\* C27: after detachEventBase no timer (loss, ack, path validation, idle,
\* keepalive, drain, ping, excess write) is scheduled, the connection's and
\* the streams' pending write callbacks are cleared, the loopers are
\* detached and the event base is unset.
C27_Detached ==
  lastOp.name = "detachEventBase"
    => /\ timers = {}
       /\ ~connWriteCallback /\ pendingWriteCallbacks = EmptyMap
       /\ ~readLooper /\ ~peekLooper /\ ~writeLooper
       /\ evb = 0

\* What detachEventBase does leave: the timers it cancels are the six of
\* lines 3517-3522.
C27_DetachedButPing ==
  lastOp.name = "detachEventBase"
    => /\ timers \subseteq {"ping", "excessWrite"}
       /\ ~connWriteCallback /\ pendingWriteCallbacks = EmptyMap
       /\ ~readLooper /\ ~peekLooper /\ ~writeLooper
       /\ evb = 0

C27_PingLeft == lastOp.name = "detachEventBase" /\ "ping" \in timers

\* ------------------------------------------------------ ECN validation
\* A received acknowledgement is processed by an open connection that attempts
\* or has validated the given ECN states, and validation has begun
EcnValidationRun(states) ==
  /\ lastOp'.name = "onNetworkData"
  /\ ecn.ecnState \in states
  /\ closeState' # "CLOSED" /\ ~crashed'
  /\ ecn'.minimumExpectedEcnMarksEchoed >= MinEcnMarks

\* C28: in L4S mode, once the required number of ack-eliciting app-data
\* packets have been echoed with only ECT1 and CE marks (no more of them than
\* packets were sent) and no ECT0, the state becomes ValidatedL4S and exactly
\* one EcnL4sTracker is a packet processor, however often validation repeats;
\* with an ECT0 echo the state becomes FailedValidation, the ECN bits of the
\* socket TOS are 0 and are what the socket has, and the tracker is removed.
C28_L4sStep ==
  EcnValidationRun({"AttemptingL4S", "ValidatedL4S"})
    => /\ ( /\ marksInRange([ecn |-> ecn'],
                            ecn'.ecnCECountEchoed + ecn'.ecnECT1CountEchoed)
            /\ ecn'.ecnECT0CountEchoed = 0 )
          => /\ ecn'.ecnState = "ValidatedL4S"
             /\ ecn'.ecnL4sTracker /\ ecn'.packetProcessors = 1
       /\ ecn'.ecnECT0CountEchoed > 0
          => /\ ecn'.ecnState = "FailedValidation"
             /\ ecn'.socketTos = "NotECT" /\ ecn'.socketTosSet = "NotECT"
             /\ ~ecn'.ecnL4sTracker /\ ecn'.packetProcessors = 0

C28_L4sValidation == [][C28_L4sStep]_vars

\* A validation that succeeds, with CE marks among the ECT1 marks
C28_Witness ==
  /\ lastOp.name = "onNetworkData"
  /\ ecn.ecnState = "ValidatedL4S"
  /\ ecn.ecnL4sTracker /\ ecn.packetProcessors = 1
  /\ ecn.ecnCECountEchoed > 0 /\ ecn.ecnECT1CountEchoed >= MinEcnMarks

\* The failure of an L4S validation on an ECT0 echo
C28_WitnessFailed ==
  /\ lastOp.name = "onNetworkData"
  /\ settings.useL4sEcn /\ ecn.ecnState = "FailedValidation"
  /\ ecn.ecnECT0CountEchoed > 0 /\ ecn.socketTosSet = "NotECT"

\* C29 as stated: in classic ECN mode, once validation has begun, the state
\* is ValidatedECN exactly when CE + ECT0 echoed lies in
\* [10, totalPacketsSent] and ECT1 echoed is 0, and FailedValidation otherwise.
C29_ClassicStep(lowest) ==
  EcnValidationRun({"AttemptingECN", "ValidatedECN"})
    => /\ ecn'.ecnState = "ValidatedECN"
            <=> /\ ecn'.ecnCECountEchoed + ecn'.ecnECT0CountEchoed >= lowest
                /\ ecn'.ecnCECountEchoed + ecn'.ecnECT0CountEchoed
                     <= ecn'.totalPacketsSent
                /\ ecn'.ecnECT1CountEchoed = 0
       /\ ecn'.ecnState \in {"ValidatedECN", "FailedValidation"}

C29_IntervalFromTen == [][C29_ClassicStep(MinEcnMarks)]_vars

\* C29 amended: the interval is
\* [minimumExpectedEcnMarksEchoed, totalPacketsSent], whose lower end is the
\* number of ack-eliciting packets echoed, 10 or more.
C29_IntervalFromExpected ==
  [][C29_ClassicStep(ecn'.minimumExpectedEcnMarksEchoed)]_vars

\* A validation that fails with 10 marks or more: fewer marks than expected
C29_Witness ==
  /\ lastOp.name = "onNetworkData"
  /\ ~settings.useL4sEcn /\ ecn.ecnState = "FailedValidation"
  /\ ecn.ecnECT1CountEchoed = 0
  /\ ecn.ecnCECountEchoed + ecn.ecnECT0CountEchoed >= MinEcnMarks
  /\ ecn.ecnCECountEchoed + ecn.ecnECT0CountEchoed <= ecn.totalPacketsSent
  /\ ecn.ecnCECountEchoed + ecn.ecnECT0CountEchoed
       < ecn.minimumExpectedEcnMarksEchoed

C29_WitnessValidated ==
  /\ lastOp.name = "onNetworkData"
  /\ ecn.ecnState = "ValidatedECN"
  /\ ecn.ecnCECountEchoed + ecn.ecnECT0CountEchoed
       >= ecn.minimumExpectedEcnMarksEchoed

\* ------------------------------------------------- send buffer space
\* C30 as stated: bufferSpaceAvailable() + sumCurStreamBufferLen <=
\* totalBufferSpaceAvailable for all values, with equality when the buffered
\* amount does not exceed the total, and bufferSpaceAvailable() = 0 when it
\* does.
C30_Called == lastOp.name = "getConnectionBufferAvailable"

C30_Clamped ==
  C30_Called
    => IF flowControlState.sumCurStreamBufferLen
            <= settings.totalBufferSpaceAvailable
       THEN bufferAvailable + flowControlState.sumCurStreamBufferLen
              = settings.totalBufferSpaceAvailable
       ELSE bufferAvailable = 0

C30_SumWithinTotal ==
  /\ C30_Called
       => bufferAvailable + flowControlState.sumCurStreamBufferLen
            <= settings.totalBufferSpaceAvailable
  /\ C30_Clamped

\* C30 amended: the sum equals the total when the buffered amount does not
\* exceed it; when it does, bufferSpaceAvailable() = 0 and the sum is the
\* buffered amount, above the total.
C30_EqualOrZero ==
  /\ C30_Clamped
  /\ C30_Called /\ flowControlState.sumCurStreamBufferLen
                     > settings.totalBufferSpaceAvailable
       => bufferAvailable + flowControlState.sumCurStreamBufferLen
            > settings.totalBufferSpaceAvailable

C30_Witness ==
  /\ C30_Called /\ bufferAvailable = 0
  /\ flowControlState.sumCurStreamBufferLen
       > settings.totalBufferSpaceAvailable

C30_WitnessEqual ==
  /\ C30_Called /\ bufferAvailable > 0
  /\ flowControlState.sumCurStreamBufferLen > 0

\* -------------------------------------------------- error and close state
\* lines 193-203
error == localConnectionError # NoErr

\* C31: in every state, a local connection error that is present means the
\* close state is not Open: error() true implies the connection is closing
\* or closed.
C31_ErrorImpliesNotOpen == error => closeState # "OPEN"

\* A connection closed with an error
C31_Witness ==
  /\ error /\ closeState = "CLOSED"
  /\ lastOp.name \in {"close", "idleTimeoutExpired", "onNetworkData"}

\* C32: when the path-validation timer expires, the outstanding path
\* validation is cleared and the connection is closed with the transport
\* error INVALID_MIGRATION and without draining: when the handler returns
\* the drain timer is not armed, the UDP socket is closed and the connection
\* is unbound.
C32_PathValidationExpiry ==
  lastOp.name = "pathValidationTimeoutExpired" /\ ~crashed
    => /\ ~outstandingPathValidation
       /\ ~pendingEvents.schedulePathValidationTimeout
       /\ closeState = "CLOSED"
       /\ localConnectionError.type = "Transport"
       /\ localConnectionError.code = "INVALID_MIGRATION"
       /\ "drain" \notin timers
       /\ ~socket /\ ~bound

\* The expiry on a connection whose settings ask for a drain period
C32_Witness ==
  /\ lastOp.name = "pathValidationTimeoutExpired" /\ ~crashed
  /\ closeState = "CLOSED" /\ settings.shouldDrain
  /\ localConnectionError.code = "INVALID_MIGRATION"
  /\ ~socket /\ ~bound

\* C33: the datagram write buffer never holds more datagrams than
\* maxWriteBufferSize allows, whatever limit is configured (0 included) and
\* whether a write on a full buffer is refused or drops the oldest datagram.
C33_WriteBufferWithinLimit ==
  Len(datagramState.writeBuffer) <= datagramState.maxWriteBufferSize

\* C40: on a Closed connection both datagram buffers are empty, and
\* writeDatagram and readDatagrams on a connection that is not Open return
\* CONNECTION_CLOSED.
C40_BuffersEmptyWhenClosed ==
  /\ closeState = "CLOSED"
       => datagramState.readBuffer = << >> /\ datagramState.writeBuffer = << >>
  /\ lastOp.name \in {"writeDatagram", "readDatagrams"} /\ closeState # "OPEN"
       => ret = "CONNECTION_CLOSED"

\* C34: with an idle timeout set, a write pass re-arms the idle timer if
\* and only if it sent a new
\* ack-eliciting packet and either no packet was outstanding before the
\* pass or a new packet had been received since the last such re-arm; the
\* re-arm clears the received-new-packet flag, and a pass that does not
\* re-arm leaves the flag as it was, so that write passes with packets
\* outstanding and nothing new received never extend the idle timer.
C34_WritePass ==
  /\ lastOp'.name = "pacedWriteDataToSocket"
  /\ socket /\ ~crashed' /\ closeState' # "CLOSED"

C34_Step ==
  C34_WritePass =>
    /\ netObs'.idleSet <=>
         /\ netObs'.newOutstandingPackets
         /\ outstandings = 0 \/ receivedNewPacketBeforeWrite
    /\ netObs'.idleSet => ~receivedNewPacketBeforeWrite'
    /\ ~netObs'.idleSet =>
         receivedNewPacketBeforeWrite' = receivedNewPacketBeforeWrite

C34_IdleTimerOnWrite == [][C34_Step]_vars

\* A pass that sent a packet with packets outstanding and left the idle
\* timer alone
C34_Witness ==
  /\ lastOp.name = "pacedWriteDataToSocket" /\ ~crashed
  /\ closeState = "OPEN" /\ settings.idleTimeoutEnabled
  /\ netObs.newOutstandingPackets /\ ~netObs.idleSet

\* A pass that re-armed the idle timer after a packet was received
C34_WitnessRearmed ==
  /\ lastOp.name = "pacedWriteDataToSocket" /\ ~crashed
  /\ closeState = "OPEN" /\ netObs.idleSet /\ outstandings > 0

\* C35: with useSockWritableEvents the write looper is stopped whenever the
\* socket's writable callback is armed, whatever calls updateWriteLooper
\* meanwhile; when the socket reports writable the callback is disarmed
\* and the write looper runs; and an open transport with data to write has
\* the callback armed or the write looper running.
C35_Step ==
  /\ settings.useSockWritableEvents /\ writableCb' => ~writeLooper'
  /\ lastOp'.name = "onSocketWritable" /\ ~crashed'
       => ~writableCb' /\ writeLooper'
  /\ ( /\ settings.useSockWritableEvents /\ ~crashed' /\ socket' /\ evb' # 0
       /\ closeState' # "CLOSED" /\ started'
       /\ shouldWriteData([bufferedWrite |-> bufferedWrite',
                           pendingEvents |-> pendingEvents',
                           pendingData |-> pendingData',
                           datagramState |-> datagramState']) )
       => writableCb' \/ writeLooper'

C35_WritableOrLooper == [][C35_Step]_vars

\* Packets were processed, and updateWriteLooper called, while the writable
\* callback was armed and data was waiting
C35_Witness ==
  /\ settings.useSockWritableEvents /\ writableCb /\ ~writeLooper
  /\ lastOp.name = "onNetworkData" /\ closeState = "OPEN"
  /\ pendingData # {}

\* The socket reported writable on an open connection
C35_WitnessWritable ==
  /\ lastOp.name = "onSocketWritable" /\ closeState = "OPEN"
  /\ ~writableCb /\ writeLooper

\* C36: when closeNow() returns the drain timer is not scheduled, the
\* socket is closed and the connection unbound, whatever the state it was
\* called in and also when it is called from a callback of a close that
\* is still in progress.
C36_CloseNowLeavesNothing ==
  \A i \in 1..Len(netObs.closeNowExit) :
    /\ ~netObs.closeNowExit[i].drain
    /\ ~netObs.closeNowExit[i].socket
    /\ ~netObs.closeNowExit[i].bound

\* The methods of the connection callback and of the set-up callback
ConnCallbackMethods ==
  TerminalCallbacks
  \cup {"onKnob", "onNewBidirectionalStream", "onNewUnidirectionalStream",
        "onNewStreamGroup", "onFlowControlUpdate", "onStopSending",
        "onStreamPreReaped", "onAppRateLimited"}

\* C37: at most one terminal notification is delivered, and after it no
\* method of the connection callback or of the set-up callback is called.
C37_Step ==
  /\ Cardinality({j \in 1..Len(log') : log'[j].cb \in TerminalCallbacks}) <= 1
  /\ \A j, k \in 1..Len(log') :
       (log'[j].cb \in TerminalCallbacks /\ j < k)
         => log'[k].cb \notin ConnCallbackMethods
  /\ closeState = "CLOSED"
       => \A k \in 1..Len(log') : log'[k].cb \notin ConnCallbackMethods

StreamWriteNotifications == {"onStreamWriteReady", "onStreamWriteError"}

\* The callbacks that answer notifyPendingWriteOnConnection
ConnWriteNotifications == {"onConnectionWriteReady", "onConnectionWriteError"}

\* C38: a registration of a write callback is answered at most once, with
\* write-ready or with write-error, and its entry is gone when the callback
\* runs; no turn of this specification registers a callback after it was
\* answered.
C38_AtMostOneNotification ==
  /\ \A j, k \in 1..Len(log) :
       ( /\ j < k /\ log[j].cb \in StreamWriteNotifications
         /\ log[k].cb \in StreamWriteNotifications )
         => log[j].id # log[k].id
  /\ Cardinality({j \in 1..Len(log) :
                    log[j].cb \in ConnWriteNotifications}) <= 1
  /\ \A j \in 1..Len(log) :
       log[j].cb \in StreamWriteNotifications
         => log[j].id \notin DOMAIN pendingWriteCallbacks

\* C39: readAvailable is not called for a stream whose read callback is
\* paused, nor onDataAvailable for a stream whose peek callback is paused.
C39_PausedIsSilent ==
  /\ lastOp.name = "invokeReadDataAndCallbacks"
       => \A j \in 1..Len(log) :
            (log[j].cb = "readAvailable" /\ log[j].id \in DOMAIN readCallbacks)
              => readCallbacks[log[j].id].resumed
  /\ lastOp.name = "invokePeekDataAndCallbacks"
       => \A j \in 1..Len(log) :
            (log[j].cb = "onDataAvailable" /\ log[j].id \in DOMAIN peekCallbacks)
              => peekCallbacks[log[j].id].resumed

====
